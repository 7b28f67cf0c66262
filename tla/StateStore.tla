----------------------------- MODULE StateStore -----------------------------
(***************************************************************************)
(* The persisted cross-cycle state file (internal/state) under the cycles  *)
(* that load and save it (internal/scout).  Several processes use one      *)
(* file: the daemon, and any `poll` run beside it.  A pass holds the cycle *)
(* lock from before its Load to after its last Save, so passes never       *)
(* overlap, but the file changes between passes (an operator restores,     *)
(* deletes or damages it, a newer image writes it), reads fail, the        *)
(* quarantine rename fails, shutdown lands inside a read, and a process    *)
(* dies between any two steps.                                             *)
(*                                                                         *)
(* File contents are abstracted to how Load classifies them.  What a       *)
(* saved state was derived from is kept in the history variable `based`.   *)
(***************************************************************************)
EXTENDS Integers

CONSTANTS Procs,      \* the processes that may run a pass: the daemon, polls
          NoProc      \* the cycle lock's holder when it is free

ASSUME NoProcAssumption == NoProc \notin Procs

VARIABLES
    disk,           \* how Load classifies the live state file
    corruptCopy,    \* state.json.corrupt holds the last bytes quarantined
    readFault,      \* reads fail without classifying the file (EACCES, EIO)
    renameBlocked,  \* the quarantine rename fails
    lock,           \* who holds the cycle lock
    pc,             \* where each process is in its pass
    cancelled,      \* SIGTERM has cancelled this process's run context
    loadFailed,     \* Store.loadFailed
    newerSeen,      \* Store.unsupportedVersion # 0
    based,          \* history: the state in memory was read from (or written
                    \* to) the content now at the live path
    dirty,          \* the standing set differs from Scout.persistedStanding
    edition         \* history: flips at every save that reaches the file

file  == <<disk, corruptCopy, edition>>
fault == <<readFault, renameBlocked>>
store == <<loadFailed, newerSeen>>
vars  == <<disk, corruptCopy, readFault, renameBlocked, lock, pc, cancelled,
           loadFailed, newerSeen, based, dirty, edition>>

Contents == {"absent", "ok", "newer", "corrupt"}
Stages   == {"down", "idle", "load", "work", "standing", "restate"}

TypeOK ==
    /\ disk \in Contents
    /\ corruptCopy \in BOOLEAN
    /\ readFault \in BOOLEAN
    /\ renameBlocked \in BOOLEAN
    /\ lock \in Procs \cup {NoProc}
    /\ pc \in [Procs -> Stages]
    /\ cancelled \in [Procs -> BOOLEAN]
    /\ loadFailed \in [Procs -> BOOLEAN]
    /\ newerSeen \in [Procs -> BOOLEAN]
    /\ based \in [Procs -> BOOLEAN]
    /\ dirty \in [Procs -> BOOLEAN]
    /\ edition \in {0, 1}

Init ==
    /\ disk \in Contents
    /\ corruptCopy = FALSE
    /\ readFault = FALSE
    /\ renameBlocked = FALSE
    /\ lock = NoProc
    /\ pc = [p \in Procs |-> "down"]
    /\ cancelled = [p \in Procs |-> FALSE]
    /\ loadFailed = [p \in Procs |-> FALSE]
    /\ newerSeen = [p \in Procs |-> FALSE]
    /\ based = [p \in Procs |-> FALSE]
    /\ dirty = [p \in Procs |-> FALSE]
    /\ edition = 0

-----------------------------------------------------------------------------
(* Store.Load, one action per way it classifies what it found.             *)

\* Mutant: an unclassified failure does not block Save.
LoadUnclassifiedUnblocked(p) ==
    /\ readFault \/ cancelled[p]
    /\ based' = [based EXCEPT ![p] = FALSE]
    /\ UNCHANGED <<file, store>>

\* An unclassified failure: the bytes may be recoverable, so Save is blocked.
\* A version block left by an earlier Load stays.
LoadUnclassified(p) ==
    /\ readFault \/ cancelled[p]
    /\ loadFailed' = [loadFailed EXCEPT ![p] = TRUE]
    /\ based' = [based EXCEPT ![p] = FALSE]
    /\ UNCHANGED <<file, newerSeen>>

\* Mutant: a missing file lifts only the version block.
LoadAbsentKeepsBlock(p) ==
    /\ ~readFault
    /\ disk = "absent"
    /\ newerSeen' = [newerSeen EXCEPT ![p] = FALSE]
    /\ based' = [based EXCEPT ![p] = FALSE]
    /\ UNCHANGED <<file, loadFailed>>

\* A missing file is a cold start and lifts both blocks.
LoadAbsent(p) ==
    /\ ~readFault
    /\ disk = "absent"
    /\ loadFailed' = [loadFailed EXCEPT ![p] = FALSE]
    /\ newerSeen' = [newerSeen EXCEPT ![p] = FALSE]
    /\ based' = [based EXCEPT ![p] = FALSE]
    /\ UNCHANGED file

\* Mutant: the result of the quarantine rename is ignored.
LoadCorruptUnchecked(p) ==
    /\ ~readFault
    /\ disk = "corrupt"
    /\ newerSeen' = [newerSeen EXCEPT ![p] = FALSE]
    /\ loadFailed' = [loadFailed EXCEPT ![p] = FALSE]
    /\ disk' = IF renameBlocked THEN disk ELSE "absent"
    /\ corruptCopy' = (corruptCopy \/ ~renameBlocked)
    /\ based' = [based EXCEPT ![p] = FALSE]
    /\ UNCHANGED edition

\* Oversized, non-regular or undecodable: renamed aside, or, when the rename
\* fails, left in place with Save blocked.
LoadCorrupt(p) ==
    /\ ~readFault
    /\ disk = "corrupt"
    /\ newerSeen' = [newerSeen EXCEPT ![p] = FALSE]
    /\ loadFailed' = [loadFailed EXCEPT ![p] = renameBlocked]
    /\ disk' = IF renameBlocked THEN disk ELSE "absent"
    /\ corruptCopy' = (corruptCopy \/ ~renameBlocked)
    /\ based' = [based EXCEPT ![p] = FALSE]
    /\ UNCHANGED edition

\* A newer schema version: readable, but this binary must not replace it.
LoadNewer(p) ==
    /\ ~readFault
    /\ disk = "newer"
    /\ loadFailed' = [loadFailed EXCEPT ![p] = FALSE]
    /\ newerSeen' = [newerSeen EXCEPT ![p] = TRUE]
    /\ based' = [based EXCEPT ![p] = FALSE]
    /\ UNCHANGED file

LoadOk(p) ==
    /\ ~readFault
    /\ disk = "ok"
    /\ loadFailed' = [loadFailed EXCEPT ![p] = FALSE]
    /\ newerSeen' = [newerSeen EXCEPT ![p] = FALSE]
    /\ based' = [based EXCEPT ![p] = TRUE]
    /\ UNCHANGED file

LoadError(p) == LoadUnclassified(p) \/ LoadCorrupt(p) \/ LoadNewer(p)
LoadNil(p)   == LoadAbsent(p) \/ LoadOk(p)

-----------------------------------------------------------------------------
(* Scout.save: Store.Save, retried once detached when shutdown cancelled   *)
(* it, so the cancellation alone never refuses a save.                     *)

\* Mutant: the version block is not consulted.
SaveAllowedAnyVersion(p) == ~loadFailed[p]

SaveAllowed(p) == ~newerSeen[p] /\ ~loadFailed[p]

SaveDone(p) ==
    /\ SaveAllowed(p)
    /\ disk' = "ok"
    /\ edition' = 1 - edition
    /\ based' = [q \in Procs |-> q = p]
    /\ dirty' = [dirty EXCEPT ![p] = FALSE]
    /\ UNCHANGED <<corruptCopy, loadFailed, newerSeen>>

\* Refused to preserve the bytes on disk, over the size cap, or a write error:
\* the atomic commit leaves the previous file.
SaveNotDone(p) ==
    /\ UNCHANGED <<file, loadFailed, newerSeen, based>>
    /\ \E d \in BOOLEAN : dirty' = [dirty EXCEPT ![p] = d]

-----------------------------------------------------------------------------
(* A pass.                                                                 *)

At(p, stage) == pc[p] = stage /\ lock = p
Goto(p, stage) == pc' = [pc EXCEPT ![p] = stage]

Start(p) ==
    /\ pc[p] = "down"
    /\ Goto(p, "idle")
    /\ cancelled' = [cancelled EXCEPT ![p] = FALSE]
    /\ loadFailed' = [loadFailed EXCEPT ![p] = FALSE]
    /\ newerSeen' = [newerSeen EXCEPT ![p] = FALSE]
    /\ based' = [based EXCEPT ![p] = FALSE]
    /\ dirty' = [dirty EXCEPT ![p] = FALSE]
    /\ UNCHANGED <<file, fault, lock>>

BeginPass(p) ==
    /\ pc[p] = "idle"
    /\ lock = NoProc
    /\ ~cancelled[p]
    /\ lock' = p
    /\ Goto(p, "load")
    /\ UNCHANGED <<file, fault, cancelled, store, based, dirty>>

\* loadState: an error falls back to an empty state and the pass goes on.
LoadState(p) ==
    /\ At(p, "load")
    /\ LoadError(p) \/ LoadNil(p)
    /\ Goto(p, "work")
    /\ UNCHANGED <<fault, lock, cancelled, dirty>>

\* A tick over an unchanged or unreachable window never loads the state.
TickWithoutLoad(p) ==
    /\ At(p, "load")
    /\ \E d \in BOOLEAN : dirty' = [dirty EXCEPT ![p] = d]
    /\ Goto(p, "standing")
    /\ UNCHANGED <<file, fault, lock, cancelled, store, based>>

SavePass(p) ==
    /\ At(p, "work")
    /\ SaveDone(p) \/ SaveNotDone(p)
    /\ Goto(p, "standing")
    /\ UNCHANGED <<fault, lock, cancelled>>

\* Nothing worth persisting this pass.
PassWithoutSave(p) ==
    /\ At(p, "work")
    /\ \E d \in BOOLEAN : dirty' = [dirty EXCEPT ![p] = d]
    /\ Goto(p, "standing")
    /\ UNCHANGED <<file, fault, lock, cancelled, store, based>>

\* persistStanding re-loads, and gives up on a load error rather than save an
\* empty state.
PersistStandingLoad(p) ==
    /\ At(p, "standing")
    /\ ~cancelled[p]
    /\ dirty[p]
    /\ \/ LoadNil(p) /\ Goto(p, "restate") /\ UNCHANGED lock
       \/ LoadError(p) /\ Goto(p, "idle") /\ lock' = NoProc
    /\ UNCHANGED <<fault, cancelled, dirty>>

PersistStandingSave(p) ==
    /\ At(p, "restate")
    /\ SaveDone(p) \/ SaveNotDone(p)
    /\ Goto(p, "idle")
    /\ lock' = NoProc
    /\ UNCHANGED <<fault, cancelled>>

EndPass(p) ==
    /\ At(p, "standing")
    /\ cancelled[p] \/ ~dirty[p]
    /\ Goto(p, "idle")
    /\ lock' = NoProc
    /\ UNCHANGED <<file, fault, cancelled, store, based, dirty>>

Cancel(p) ==
    /\ pc[p] # "down"
    /\ ~cancelled[p]
    /\ cancelled' = [cancelled EXCEPT ![p] = TRUE]
    /\ UNCHANGED <<file, fault, lock, pc, store, based, dirty>>

\* Exit, SIGKILL or crash: the kernel drops the lock, memory is gone.
Stop(p) ==
    /\ pc[p] # "down"
    /\ Goto(p, "down")
    /\ lock' = IF lock = p THEN NoProc ELSE lock
    /\ UNCHANGED <<file, fault, cancelled, store, based, dirty>>

-----------------------------------------------------------------------------
(* The environment.  Contents change only between passes.                  *)

FileChanges ==
    /\ lock = NoProc
    /\ disk' \in Contents
    /\ based' = [p \in Procs |-> FALSE]
    /\ UNCHANGED <<corruptCopy, edition, fault, lock, pc, cancelled, store, dirty>>

FaultsChange ==
    /\ readFault' \in BOOLEAN
    /\ renameBlocked' \in BOOLEAN
    /\ UNCHANGED <<file, lock, pc, cancelled, store, based, dirty>>

PassStep(p) ==
    \/ LoadState(p) \/ TickWithoutLoad(p)
    \/ SavePass(p) \/ PassWithoutSave(p)
    \/ PersistStandingLoad(p) \/ PersistStandingSave(p) \/ EndPass(p)

ProcStep(p) == Start(p) \/ BeginPass(p) \/ PassStep(p) \/ Cancel(p) \/ Stop(p)

Next == (\E p \in Procs : ProcStep(p)) \/ FileChanges \/ FaultsChange

\* A pass in progress finishes; the scheduler keeps trying for the lock; and
\* a reconcile, which always loads, recurs every reconcileEvery iterations.
Fairness ==
    \A p \in Procs :
        /\ WF_vars(PassStep(p))
        /\ SF_vars(BeginPass(p))
        /\ SF_vars(LoadState(p))

Spec == Init /\ [][Next]_vars
FairSpec == Spec /\ Fairness

-----------------------------------------------------------------------------
(* Properties.                                                             *)

\* A save never discards a readable state it did not come from: whatever
\* replaces a good file during a pass was derived from that very file, so a
\* pass that started cold after a failed or interrupted read cannot wipe the
\* memo and the snapshot.  (Store.loadFailed, Scout.persistStanding)
SavesKeepLineage ==
    [][edition' # edition /\ disk = "ok" => lock # NoProc /\ based[lock]]_vars

\* A state file written by a newer binary is never replaced by a pass of this
\* one, through any sequence of failed reads, restarts and restores.
\* (Store.unsupportedVersion)
NewerFileSurvives ==
    [][lock # NoProc /\ disk = "newer" => disk' = "newer"]_vars

\* Corrupt bytes leave the live path only by being renamed to .corrupt; a pass
\* that could not preserve them never overwrites them.  (Store.maybeQuarantine)
EvidencePreserved ==
    [][lock # NoProc /\ disk = "corrupt" /\ disk' # "corrupt"
         => disk' = "absent" /\ corruptCopy']_vars

\* The save block is not permanent: once reads and the rename work and no newer
\* file is present, a process that keeps running may save again.
\* ("It clears as soon as a Load succeeds")
Healed(p) == /\ ~readFault /\ ~renameBlocked /\ disk # "newer"
             /\ pc[p] # "down" /\ ~cancelled[p]
SaveBlockClears ==
    \A p \in Procs : <>[]Healed(p) => <>[]SaveAllowed(p)

-----------------------------------------------------------------------------
(* The inductive invariant behind the three action properties: while a     *)
(* pass can save, the live path holds nothing, or the very state the pass  *)
(* has in memory.                                                          *)

LockHeld ==
    \A p \in Procs : pc[p] \in {"load", "work", "standing", "restate"} <=> lock = p

SaveIsSafe ==
    \A p \in Procs :
        pc[p] \in {"work", "restate"} /\ SaveAllowed(p)
            => disk = "absent" \/ (disk = "ok" /\ based[p])

IInv == TypeOK /\ LockHeld /\ SaveIsSafe
=============================================================================
