--------------------------- MODULE SnapshotCache ---------------------------
(***************************************************************************)
(* The served feed's snapshot cache (internal/indexer/reload.go).          *)
(*                                                                         *)
(* Two producers install snapshots into one cache: the loader goroutine,   *)
(* which opens, reads and decodes /config/feed.json in several unlocked    *)
(* steps, and the in-process pass, which hands over the snapshot it has    *)
(* just written.  A `poll` pass in another process, and the operator,      *)
(* change the file behind the cache's back.  Requests ask whether anything *)
(* is served while all of this is in flight.                               *)
(*                                                                         *)
(* A snapshot is the position of the write that produced it (its           *)
(* generation); a file's identity (inode and mtime) is that generation     *)
(* too, since every writer renames a new inode into place.  Generation 0   *)
(* is "no snapshot", identity 0 the zero FileIdentity.  A snapshot of an   *)
(* unsupported version installs like any other, with every member zeroed.  *)
(***************************************************************************)
EXTENDS Naturals

CONSTANTS Requests,         \* concurrent Torznab requests
          MaxGen,           \* bound: writes of the file explored
          OperatorMidPass   \* whether the operator may write the file while a
                            \* pass is between its write and its stat

ASSUME MaxGenAssumption == MaxGen \in Nat
ASSUME OperatorAssumption == OperatorMidPass \in BOOLEAN

VARIABLES
    \* the file
    gen,            \* the last write's generation; 0: never written
    kind,           \* what reading that generation yields
    present,        \* the path resolves (FALSE: deleted, volume missing)
    ioFault,        \* open or read fails (EACCES, EIO, not a regular file)
    \* snapshotCache, guarded by mu
    served,         \* snap and cur: the generation behind the served feed
    snapID,         \* snapID
    installSeq,     \* installSeq
    snapFailed,     \* snapFailed
    warned,         \* snapFailedWarned
    \* snapshotLoader, owned by its one goroutine
    lpc,            \* where refresh is
    readFrom,       \* refresh's readFrom
    fd,             \* the open descriptor: its generation and kind
    failedID,       \* failedID
    snapMissing,    \* snapMissing
    degraded,       \* reloadDegraded
    firstLoad,      \* the firstLoad channel is closed
    \* the in-process pass, inside FeedWriter.persist
    ppc,            \* "idle", "stat" or "publish"
    pub,            \* the snapshot being handed over and its stat'ed identity
    \* requests
    rpc,            \* where each call of unavailable() is
    saw,            \* what it read under the read lock
    reply,          \* its last answer: "feed" or "error"
    early,          \* history: something was installed when the request began
    \* history
    lastLoad        \* how the last completed load of this process ended

fileVars  == <<gen, kind, present, ioFault>>
cacheVars == <<served, snapID, installSeq, snapFailed, warned>>
loadVars  == <<lpc, readFrom, fd, failedID, snapMissing, degraded, firstLoad,
               lastLoad>>
passVars  == <<ppc, pub>>
reqVars   == <<rpc, saw, reply, early>>
vars == <<fileVars, cacheVars, loadVars, passVars, reqVars>>

Kinds == {"ok", "malformed", "oversize"}
installed == served # 0

TypeOK ==
    /\ gen \in 0..MaxGen
    /\ kind \in Kinds
    /\ present \in BOOLEAN
    /\ ioFault \in BOOLEAN
    /\ served \in 0..MaxGen
    /\ snapID \in 0..MaxGen
    /\ installSeq \in Nat
    /\ snapFailed \in BOOLEAN
    /\ warned \in BOOLEAN
    /\ lpc \in {"idle", "open", "absent", "check", "read", "install"}
    /\ readFrom \in Nat
    /\ fd \in [gen : 0..MaxGen, kind : Kinds]
    /\ failedID \in 0..MaxGen
    /\ snapMissing \in BOOLEAN
    /\ degraded \in BOOLEAN
    /\ firstLoad \in BOOLEAN
    /\ ppc \in {"idle", "stat", "publish"}
    /\ pub \in [gen : 0..MaxGen, id : 0..MaxGen]
    /\ rpc \in [Requests -> {"idle", "begun", "pending", "escalate"}]
    /\ saw \in [Requests -> [failed : BOOLEAN, warned : BOOLEAN]]
    /\ reply \in [Requests -> {"none", "feed", "error"}]
    /\ early \in [Requests -> BOOLEAN]
    /\ lastLoad \in {"none", "absent", "fault", "bad", "ok"}

\* The file as a first start, or a restart after an earlier run, finds it.
Init ==
    /\ gen \in 0..1 /\ gen <= MaxGen
    /\ kind \in Kinds
    /\ present = (gen # 0)
    /\ ioFault \in BOOLEAN
    /\ served = 0 /\ snapID = 0 /\ installSeq = 0
    /\ snapFailed = FALSE /\ warned = FALSE
    /\ lpc = "idle" /\ readFrom = 0
    /\ fd = [gen |-> 0, kind |-> "ok"]
    /\ failedID = 0 /\ snapMissing = FALSE /\ degraded = FALSE
    /\ firstLoad = FALSE /\ lastLoad = "none"
    /\ ppc = "idle" /\ pub = [gen |-> 0, id |-> 0]
    /\ rpc = [r \in Requests |-> "idle"]
    /\ saw = [r \in Requests |-> [failed |-> FALSE, warned |-> FALSE]]
    /\ reply = [r \in Requests |-> "none"]
    /\ early = [r \in Requests |-> FALSE]

-----------------------------------------------------------------------------
(* Installing (mu held).                                                   *)

Matches(id, info) == id # 0 /\ id = info

\* installSnapshot; the caller has decided that this snapshot may be served.
InstallSnapshot(g, id) ==
    IF Matches(snapID, id)
    THEN UNCHANGED cacheVars
    ELSE /\ served' = g
         /\ snapID' = id
         /\ installSeq' = installSeq + 1
         /\ snapFailed' = FALSE
         /\ warned' = FALSE

MarkSnapshotFailedIfUnloaded ==
    /\ snapFailed' = (snapFailed \/ ~installed)
    /\ UNCHANGED <<served, snapID, installSeq, warned>>

ClearSnapshotFailed ==
    /\ snapFailed' = FALSE
    /\ warned' = FALSE
    /\ UNCHANGED <<served, snapID, installSeq>>

-----------------------------------------------------------------------------
(* The loader: watch calls refresh, once eagerly and then per tick.        *)

LoadDone(how) ==
    /\ lpc' = "idle"
    /\ firstLoad' = TRUE
    /\ lastLoad' = how

\* The ordering position is recorded before the file is opened.
RefreshTick ==
    /\ lpc = "idle"
    /\ lpc' = "open"
    /\ readFrom' = installSeq
    /\ UNCHANGED <<fd, failedID, snapMissing, degraded, firstLoad, lastLoad>>
    /\ UNCHANGED <<fileVars, cacheVars, passVars, reqVars>>

OpenFault ==
    /\ lpc = "open"
    /\ ioFault
    /\ MarkSnapshotFailedIfUnloaded
    /\ degraded' = TRUE
    /\ LoadDone("fault")
    /\ UNCHANGED <<readFrom, fd, failedID, snapMissing>>
    /\ UNCHANGED <<fileVars, passVars, reqVars>>

\* noteSnapshotAbsent reads hasInstalled, then acts on it under another lock.
OpenAbsent ==
    /\ lpc = "open"
    /\ ~ioFault /\ ~present
    /\ degraded' = FALSE
    /\ \/ /\ ~installed
          /\ lpc' = "absent"
          /\ UNCHANGED <<snapMissing, firstLoad, lastLoad>>
       \/ /\ installed
          /\ snapMissing' = TRUE
          /\ LoadDone("absent")
    /\ UNCHANGED <<readFrom, fd, failedID>>
    /\ UNCHANGED <<fileVars, cacheVars, passVars, reqVars>>

AbsentClears ==
    /\ lpc = "absent"
    /\ ClearSnapshotFailed
    /\ LoadDone("absent")
    /\ UNCHANGED <<readFrom, fd, failedID, snapMissing, degraded>>
    /\ UNCHANGED <<fileVars, passVars, reqVars>>

OpenOk ==
    /\ lpc = "open"
    /\ ~ioFault /\ present
    /\ fd' = [gen |-> gen, kind |-> kind]
    /\ snapMissing' = FALSE
    /\ lpc' = "check"
    /\ UNCHANGED <<readFrom, failedID, degraded, firstLoad, lastLoad>>
    /\ UNCHANGED <<fileVars, cacheVars, passVars, reqVars>>

\* The memoized bad file is never re-read, but the state it left is asserted
\* again: a disappearance in between may have cleared it.
SkipMemoizedMalformed ==
    /\ lpc = "check"
    /\ Matches(failedID, fd.gen)
    /\ MarkSnapshotFailedIfUnloaded
    /\ degraded' = FALSE
    /\ LoadDone("bad")
    /\ UNCHANGED <<readFrom, fd, failedID, snapMissing>>
    /\ UNCHANGED <<fileVars, passVars, reqVars>>

\* Mutant: the fast path is taken while degraded.
UnchangedEvenDegraded(id) == Matches(snapID, id)

\* The unchanged fast path, not taken while degraded.
Unchanged(id) == Matches(snapID, id) /\ ~degraded

SkipUnchanged ==
    /\ lpc = "check"
    /\ ~Matches(failedID, fd.gen)
    /\ Unchanged(fd.gen)
    /\ LoadDone("ok")
    /\ UNCHANGED <<readFrom, fd, failedID, snapMissing, degraded>>
    /\ UNCHANGED <<fileVars, cacheVars, passVars, reqVars>>

CheckPasses ==
    /\ lpc = "check"
    /\ ~Matches(failedID, fd.gen)
    /\ ~Unchanged(fd.gen)
    /\ lpc' = "read"
    /\ UNCHANGED <<readFrom, fd, failedID, snapMissing, degraded, firstLoad, lastLoad>>
    /\ UNCHANGED <<fileVars, cacheVars, passVars, reqVars>>

\* A read fault keeps the feed and forgets the memo; bad content is memoized
\* by identity; an oversized file is both.
ReadFails ==
    /\ lpc = "read"
    /\ \/ /\ ioFault \/ fd.kind = "oversize"
          /\ degraded' = TRUE
          /\ failedID' = IF ioFault THEN 0 ELSE fd.gen
          /\ LoadDone(IF ioFault THEN "fault" ELSE "bad")
       \/ /\ ~ioFault /\ fd.kind = "malformed"
          /\ failedID' = fd.gen
          /\ LoadDone("bad")
          /\ UNCHANGED degraded
    /\ MarkSnapshotFailedIfUnloaded
    /\ UNCHANGED <<readFrom, fd, snapMissing>>
    /\ UNCHANGED <<fileVars, passVars, reqVars>>

ReadOk ==
    /\ lpc = "read"
    /\ ~ioFault /\ fd.kind = "ok"
    /\ failedID' = 0
    /\ degraded' = FALSE
    /\ lpc' = "install"
    /\ UNCHANGED <<readFrom, fd, snapMissing, firstLoad, lastLoad>>
    /\ UNCHANGED <<fileVars, cacheVars, passVars, reqVars>>

\* Mutant: the load is not ordered against other installs.
InstallLoadedUnordered ==
    /\ lpc = "install"
    /\ InstallSnapshot(fd.gen, fd.gen)
    /\ LoadDone("ok")
    /\ UNCHANGED <<readFrom, fd, failedID, snapMissing, degraded>>
    /\ UNCHANGED <<fileVars, passVars, reqVars>>

\* installLoaded: a read overtaken by another install is discarded.
InstallLoaded ==
    /\ lpc = "install"
    /\ IF readFrom = installSeq
       THEN InstallSnapshot(fd.gen, fd.gen)
       ELSE UNCHANGED cacheVars
    /\ LoadDone("ok")
    /\ UNCHANGED <<readFrom, fd, failedID, snapMissing, degraded>>
    /\ UNCHANGED <<fileVars, passVars, reqVars>>

LoaderStep ==
    \/ OpenFault \/ OpenAbsent \/ AbsentClears \/ OpenOk
    \/ SkipMemoizedMalformed \/ SkipUnchanged \/ CheckPasses
    \/ ReadFails \/ ReadOk \/ InstallLoaded

-----------------------------------------------------------------------------
(* The file's writers.                                                     *)

WriteFile(k) ==
    /\ gen < MaxGen
    /\ gen' = gen + 1
    /\ kind' = k
    /\ present' = TRUE
    /\ UNCHANGED ioFault

\* FeedWriter.persist in this process; it holds the cycle lock throughout.
PassWrites ==
    /\ ppc = "idle"
    /\ WriteFile("ok")
    /\ ppc' = "stat"
    /\ pub' = [gen |-> gen + 1, id |-> 0]
    /\ UNCHANGED <<cacheVars, loadVars, reqVars>>

\* publishSnapshot stats the path, not the descriptor it wrote.
PassStats ==
    /\ ppc = "stat"
    /\ ppc' = "publish"
    /\ \/ present /\ pub' = [pub EXCEPT !.id = gen]
       \/ UNCHANGED pub
    /\ UNCHANGED <<fileVars, cacheVars, loadVars, reqVars>>

Publish ==
    /\ ppc = "publish"
    /\ InstallSnapshot(pub.gen, pub.id)
    /\ ppc' = "idle"
    /\ UNCHANGED <<pub, fileVars, loadVars, reqVars>>

\* Mutant: a `poll` pass does not wait for the cycle lock.
PollWritesUnlocked ==
    /\ WriteFile("ok")
    /\ UNCHANGED <<cacheVars, loadVars, passVars, reqVars>>

\* A `poll` pass in another process, excluded by the cycle lock while a pass
\* of this one runs.
PollWrites ==
    /\ ppc = "idle"
    /\ WriteFile("ok")
    /\ UNCHANGED <<cacheVars, loadVars, passVars, reqVars>>

\* The operator restores a copy of a snapshot, or damages the file.
OperatorWrites ==
    /\ ppc = "idle" \/ OperatorMidPass
    /\ \E k \in Kinds : WriteFile(k)
    /\ UNCHANGED <<cacheVars, loadVars, passVars, reqVars>>

\* The path goes away, or the very same file comes back.
PathToggles ==
    /\ gen # 0
    /\ present' = ~present
    /\ UNCHANGED <<gen, kind, ioFault>>
    /\ UNCHANGED <<cacheVars, loadVars, passVars, reqVars>>

FaultToggles ==
    /\ ioFault' = ~ioFault
    /\ UNCHANGED <<gen, kind, present>>
    /\ UNCHANGED <<cacheVars, loadVars, passVars, reqVars>>

-----------------------------------------------------------------------------
(* snapshotCache.unavailable, called by a request.                         *)

Answer(r, a) ==
    /\ reply' = [reply EXCEPT ![r] = a]
    /\ rpc' = [rpc EXCEPT ![r] = "idle"]

RequestBegins(r) ==
    /\ rpc[r] = "idle"
    /\ rpc' = [rpc EXCEPT ![r] = "begun"]
    /\ early' = [early EXCEPT ![r] = installed]
    /\ reply' = [reply EXCEPT ![r] = "none"]
    /\ UNCHANGED <<saw, fileVars, cacheVars, loadVars, passVars>>

\* Mutant: the failure flag is looked at before the installed snapshot.
RequestReadsFlagFirst(r) ==
    /\ rpc[r] = "begun"
    /\ saw' = [saw EXCEPT ![r] = [failed |-> snapFailed, warned |-> warned]]
    /\ rpc' = [rpc EXCEPT ![r] = IF snapFailed THEN "escalate" ELSE "pending"]
    /\ UNCHANGED <<reply, early, fileVars, cacheVars, loadVars, passVars>>

\* The first look, under the read lock.
RequestReads(r) ==
    /\ rpc[r] = "begun"
    /\ saw' = [saw EXCEPT ![r] = [failed |-> snapFailed, warned |-> warned]]
    /\ \/ /\ installed
          /\ Answer(r, "feed")
       \/ /\ ~installed /\ ~snapFailed
          /\ rpc' = [rpc EXCEPT ![r] = "pending"]
          /\ UNCHANGED reply
       \/ /\ ~installed /\ snapFailed /\ warned
          /\ Answer(r, "error")
       \/ /\ ~installed /\ snapFailed /\ ~warned
          /\ rpc' = [rpc EXCEPT ![r] = "escalate"]
          /\ UNCHANGED reply
    /\ UNCHANGED <<early, fileVars, cacheVars, loadVars, passVars>>

\* loadPending, read after the lock was released.
RequestChecksPending(r) ==
    /\ rpc[r] = "pending"
    /\ Answer(r, IF firstLoad THEN "feed" ELSE "error")
    /\ UNCHANGED <<saw, early, fileVars, cacheVars, loadVars, passVars>>

\* The second look, under the write lock.
RequestEscalates(r) ==
    /\ rpc[r] = "escalate"
    /\ \/ /\ installed \/ ~snapFailed
          /\ Answer(r, "feed")
          /\ UNCHANGED cacheVars
       \/ /\ ~installed /\ snapFailed
          /\ Answer(r, "error")
          /\ warned' = TRUE
          /\ UNCHANGED <<served, snapID, installSeq, snapFailed>>
    /\ UNCHANGED <<saw, early, fileVars, loadVars, passVars>>

RequestStep(r) ==
    \/ RequestBegins(r) \/ RequestReads(r)
    \/ RequestChecksPending(r) \/ RequestEscalates(r)

-----------------------------------------------------------------------------

\* The daemon restarts: the cache is rebuilt and start spawns its loader.
Restart ==
    /\ served' = 0 /\ snapID' = 0 /\ installSeq' = 0
    /\ snapFailed' = FALSE /\ warned' = FALSE
    /\ lpc' = "idle" /\ readFrom' = 0
    /\ fd' = [gen |-> 0, kind |-> "ok"]
    /\ failedID' = 0 /\ snapMissing' = FALSE /\ degraded' = FALSE
    /\ firstLoad' = FALSE /\ lastLoad' = "none"
    /\ ppc' = "idle" /\ pub' = [gen |-> 0, id |-> 0]
    /\ rpc' = [r \in Requests |-> "idle"]
    /\ saw' = [r \in Requests |-> [failed |-> FALSE, warned |-> FALSE]]
    /\ reply' = [r \in Requests |-> "none"]
    /\ early' = [r \in Requests |-> FALSE]
    /\ UNCHANGED fileVars

PassStep == PassWrites \/ PassStats \/ Publish

Next ==
    \/ RefreshTick \/ LoaderStep \/ PassStep
    \/ PollWrites \/ OperatorWrites \/ PathToggles \/ FaultToggles
    \/ (\E r \in Requests : RequestStep(r))
    \/ Restart

\* The ticker keeps firing and a load that started returns (a wedged load is
\* outside the model); a pass that wrote the file goes on to publish it.
Fairness ==
    /\ WF_vars(RefreshTick)
    /\ WF_vars(LoaderStep)
    /\ WF_vars(PassStats \/ Publish)

Spec == Init /\ [][Next]_vars
FairSpec == Spec /\ Fairness

-----------------------------------------------------------------------------
(* Properties.                                                             *)

\* Whatever the interleaving of the two producers, the cache serves ever newer
\* writes of the file and never goes back to an older one within one process:
\* it implements the feed server's promise.  (installLoaded, installPublished)
Feed == INSTANCE ServedFeed WITH written <- gen, serving <- served
ImplementsServedFeed == Feed!FeedSpec

\* The reload skipped because the file on disk is the one already loaded, by
\* identity, never skips a file other than the one being served.
\* (loadedSnapshotUnchanged, publishSnapshot)
UnchangedMeansLoaded ==
    lpc = "check" /\ Unchanged(fd.gen) => served = fd.gen

\* A local fault at startup is never served as a successful empty feed: with
\* nothing installed after the first load, requests are refused unless that
\* load found no file at all.  (snapFailed, skipMemoizedMalformed)
NoSilentEmpty ==
    ~installed /\ firstLoad /\ lpc = "idle" => (snapFailed <=> lastLoad # "absent")

\* A request that began after a snapshot was installed is never answered with
\* the unavailable error, whatever it raced.  (unavailable)
NoStaleError ==
    \A r \in Requests : reply[r] = "error" => ~early[r]

\* What a request is told is true of the feed: it is not refused for a fault an
\* install has ended, and a fault is not told as an empty feed.
HonestAnswers == NoSilentEmpty /\ NoStaleError

\* Once the file stays readable and unchanged, the feed served is the file's,
\* and the degraded and missing flags are down for the next onset to warn.
\* (refresh)
EventuallyFresh ==
    <>[](~ioFault /\ present /\ kind = "ok") /\ <>[][~Restart]_vars
        => []<>(served = gen /\ ~degraded /\ ~snapMissing)

-----------------------------------------------------------------------------
(* The inductive invariant behind the refinement.                          *)

\* Nothing is served that was not written, and the recorded identity is that of
\* the served snapshot, or none.
ServedWasWritten ==
    /\ served <= gen
    /\ snapID \in {0, served}
    /\ present => gen # 0

\* The snapshot being handed over is the file's last write.
PublishIsNewest ==
    ppc # "idle" => pub.gen = gen /\ pub.id \in {0, gen}

\* A load that no install has overtaken holds a generation no older than the
\* served one.
LoadIsCurrent ==
    /\ readFrom <= installSeq
    /\ lpc \in {"check", "read", "install"} =>
          /\ fd.gen \in 1..gen
          /\ readFrom = installSeq => served <= fd.gen

IInv == TypeOK /\ ServedWasWritten /\ PublishIsNewest /\ LoadIsCurrent
=============================================================================
