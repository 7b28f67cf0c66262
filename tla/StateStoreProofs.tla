-------------------------- MODULE StateStoreProofs --------------------------
(* The state file's safety for any number of processes.                    *)
EXTENDS StateStore, TLAPS

USE NoProcAssumption

\* Every step keeps the variables in their types.
LEMMA TypeStep == TypeOK /\ [Next]_vars => TypeOK'
<1> SUFFICES ASSUME TypeOK, [Next]_vars PROVE TypeOK'
    OBVIOUS
<1>1. ASSUME NEW p \in Procs, ProcStep(p) PROVE TypeOK'
  <2>1. CASE Start(p)
    BY <2>1 DEF Start, Goto, TypeOK, Stages, file, fault
  <2>2. CASE BeginPass(p)
    BY <2>2 DEF BeginPass, Goto, TypeOK, Stages, file, fault, store
  <2>3. CASE LoadState(p)
    BY <2>3 DEF LoadState, LoadError, LoadNil, LoadUnclassified, LoadAbsent,
                LoadCorrupt, LoadNewer, LoadOk, At, Goto, TypeOK, Stages,
                Contents, file, fault
  <2>4. CASE TickWithoutLoad(p) \/ PassWithoutSave(p) \/ EndPass(p)
    BY <2>4 DEF TickWithoutLoad, PassWithoutSave, EndPass, At, Goto, TypeOK,
                Stages, file, fault, store
  <2>5. CASE SavePass(p) \/ PersistStandingSave(p)
    <3>1. /\ pc' \in [Procs -> Stages]
          /\ lock' \in Procs \cup {NoProc}
          /\ UNCHANGED <<fault, cancelled>>
      BY <2>5 DEF SavePass, PersistStandingSave, At, Goto, TypeOK, Stages
    <3>2. CASE SaveDone(p)
      BY <3>1, <3>2 DEF SaveDone, TypeOK, Contents, fault
    <3>3. CASE SaveNotDone(p)
      BY <3>1, <3>3 DEF SaveNotDone, TypeOK, file, fault
    <3> QED BY <2>5, <3>2, <3>3 DEF SavePass, PersistStandingSave
  <2>6. CASE PersistStandingLoad(p)
    BY <2>6 DEF PersistStandingLoad, LoadError, LoadNil, LoadUnclassified,
                LoadAbsent, LoadCorrupt, LoadNewer, LoadOk, At, Goto, TypeOK,
                Stages, Contents, file, fault
  <2>7. CASE Cancel(p) \/ Stop(p)
    BY <2>7 DEF Cancel, Stop, Goto, TypeOK, Stages, file, fault, store
  <2> QED BY <1>1, <2>1, <2>2, <2>3, <2>4, <2>5, <2>6, <2>7
          DEF ProcStep, PassStep
<1>2. CASE FileChanges
  BY <1>2 DEF FileChanges, TypeOK, fault, store
<1>3. CASE FaultsChange
  BY <1>3 DEF FaultsChange, TypeOK, file, store
<1>4. CASE UNCHANGED vars
  BY <1>4 DEF vars, TypeOK
<1> QED BY <1>1, <1>2, <1>3, <1>4 DEF Next

\* The lock's holder is exactly the process inside a pass, so two passes never
\* overlap.
LEMMA LockStep == TypeOK /\ LockHeld /\ [Next]_vars => LockHeld'
<1> SUFFICES ASSUME TypeOK, LockHeld, [Next]_vars PROVE LockHeld'
    OBVIOUS
<1> USE DEF TypeOK, LockHeld, Stages
<1>1. ASSUME NEW p \in Procs, ProcStep(p) PROVE LockHeld'
  <2>1. CASE Start(p)
    BY <2>1 DEF Start, Goto
  <2>2. CASE BeginPass(p)
    BY <2>2 DEF BeginPass, Goto
  <2>3. CASE LoadState(p) \/ TickWithoutLoad(p) \/ SavePass(p) \/ PassWithoutSave(p)
    BY <2>3 DEF LoadState, TickWithoutLoad, SavePass, PassWithoutSave, At, Goto
  <2>4. CASE PersistStandingLoad(p)
    BY <2>4 DEF PersistStandingLoad, At, Goto
  <2>5. CASE PersistStandingSave(p) \/ EndPass(p)
    BY <2>5 DEF PersistStandingSave, EndPass, At, Goto
  <2>6. CASE Cancel(p)
    BY <2>6 DEF Cancel
  <2>7. CASE Stop(p)
    BY <2>7 DEF Stop, Goto
  <2> QED BY <1>1, <2>1, <2>2, <2>3, <2>4, <2>5, <2>6, <2>7
          DEF ProcStep, PassStep
<1>2. CASE FileChanges \/ FaultsChange \/ UNCHANGED vars
  BY <1>2 DEF FileChanges, FaultsChange, vars
<1> QED BY <1>1, <1>2 DEF Next

\* A pass that can save has behind it an absent file or its own state.
LEMMA SafeStep == IInv /\ [Next]_vars => SaveIsSafe'
<1> SUFFICES ASSUME IInv, [Next]_vars PROVE SaveIsSafe'
    OBVIOUS
<1> USE DEF IInv, TypeOK, LockHeld, SaveIsSafe, SaveAllowed, Stages
<1>1. ASSUME NEW p \in Procs, ProcStep(p) PROVE SaveIsSafe'
  <2>1. CASE Start(p)
    BY <2>1 DEF Start, Goto, file
  <2>2. CASE BeginPass(p)
    BY <2>2 DEF BeginPass, Goto, file, store
  <2>3. CASE LoadState(p)
    <3>1. ASSUME NEW q \in Procs, q # p PROVE pc'[q] \notin {"work", "restate"}
      BY <2>3, <3>1 DEF LoadState, At, Goto
    <3>2. SaveAllowed(p)' => disk' = "absent" \/ (disk' = "ok" /\ based'[p])
      BY <2>3 DEF LoadState, LoadError, LoadNil, LoadUnclassified, LoadAbsent,
                  LoadCorrupt, LoadNewer, LoadOk, Contents, file
    <3> QED BY <3>1, <3>2
  <2>4. CASE TickWithoutLoad(p) \/ PassWithoutSave(p) \/ EndPass(p)
    BY <2>4 DEF TickWithoutLoad, PassWithoutSave, EndPass, At, Goto, file, store
  <2>5. CASE SavePass(p) \/ PersistStandingSave(p)
    <3>1. ASSUME NEW q \in Procs PROVE pc'[q] \notin {"work", "restate"}
      BY <2>5, <3>1 DEF SavePass, PersistStandingSave, At, Goto
    <3> QED BY <3>1
  <2>6. CASE PersistStandingLoad(p)
    <3>1. ASSUME NEW q \in Procs, q # p PROVE pc'[q] \notin {"work", "restate"}
      BY <2>6, <3>1 DEF PersistStandingLoad, At, Goto
    <3>2. pc'[p] \in {"work", "restate"} => LoadNil(p)
      BY <2>6 DEF PersistStandingLoad, At, Goto
    <3>3. LoadNil(p) => disk' = "absent" \/ (disk' = "ok" /\ based'[p])
      BY DEF LoadNil, LoadAbsent, LoadOk, file
    <3> QED BY <3>1, <3>2, <3>3
  <2>7. CASE Cancel(p)
    BY <2>7 DEF Cancel, file, store
  <2>8. CASE Stop(p)
    BY <2>8 DEF Stop, Goto, file, store
  <2> QED BY <1>1, <2>1, <2>2, <2>3, <2>4, <2>5, <2>6, <2>7, <2>8
          DEF ProcStep, PassStep
<1>2. CASE FileChanges
  BY <1>2 DEF FileChanges
<1>3. CASE FaultsChange
  BY <1>3 DEF FaultsChange, file, store
<1>4. CASE UNCHANGED vars
  BY <1>4 DEF vars
<1> QED BY <1>1, <1>2, <1>3, <1>4 DEF Next

\* The inductive invariant holds of every behaviour.
THEOREM Invariance == Spec => []IInv
<1>1. Init => IInv
  BY DEF Init, IInv, TypeOK, LockHeld, SaveIsSafe, Stages
<1>2. IInv /\ [Next]_vars => IInv'
  BY TypeStep, LockStep, SafeStep DEF IInv
<1> QED BY <1>1, <1>2, PTL DEF Spec

\* What any step may do to the live file: a load changes it only by the
\* quarantine rename, a save only over nothing or over the state it came from.
LEMMA FileStep ==
    ASSUME IInv, [Next]_vars
    PROVE  /\ edition' # edition /\ disk = "ok" => lock # NoProc /\ based[lock]
           /\ lock # NoProc /\ disk = "newer" => disk' = "newer"
           /\ lock # NoProc /\ disk = "corrupt" /\ disk' # "corrupt"
                => disk' = "absent" /\ corruptCopy'
<1> USE DEF IInv, TypeOK, LockHeld, file
<1> DEFINE Goal == /\ edition' # edition /\ disk = "ok" => lock # NoProc /\ based[lock]
                   /\ lock # NoProc /\ disk = "newer" => disk' = "newer"
                   /\ lock # NoProc /\ disk = "corrupt" /\ disk' # "corrupt"
                        => disk' = "absent" /\ corruptCopy'
<1>1. ASSUME NEW p \in Procs, ProcStep(p) PROVE Goal
  <2>1. CASE LoadState(p) \/ PersistStandingLoad(p)
    <3>1. LoadError(p) \/ LoadNil(p)
      BY <2>1 DEF LoadState, PersistStandingLoad
    <3> QED BY <3>1 DEF LoadError, LoadNil, LoadUnclassified, LoadAbsent,
                        LoadCorrupt, LoadNewer, LoadOk
  <2>2. CASE SavePass(p) \/ PersistStandingSave(p)
    <3>1. lock = p /\ pc[p] \in {"work", "restate"}
      BY <2>2 DEF SavePass, PersistStandingSave, At
    <3>2. CASE SaveDone(p)
      <4>1. disk = "absent" \/ (disk = "ok" /\ based[p])
        BY <3>1, <3>2 DEF SaveIsSafe, SaveDone
      <4> QED BY <3>1, <4>1
    <3>3. CASE SaveNotDone(p)
      BY <3>3 DEF SaveNotDone
    <3> QED BY <2>2, <3>2, <3>3 DEF SavePass, PersistStandingSave
  <2>3. CASE UNCHANGED file
    BY <2>3
  <2> QED BY <1>1, <2>1, <2>2, <2>3
          DEF ProcStep, PassStep, Start, BeginPass, TickWithoutLoad,
              PassWithoutSave, EndPass, Cancel, Stop
<1>2. CASE FileChanges \/ FaultsChange \/ UNCHANGED vars
  BY <1>2 DEF FileChanges, FaultsChange, vars
<1> QED BY <1>1, <1>2 DEF Next

\* No save discards a readable state it did not come from, for any number of
\* processes.
THEOREM LineageKept == Spec => SavesKeepLineage
<1>1. IInv /\ [Next]_vars
        => (edition' # edition /\ disk = "ok" => lock # NoProc /\ based[lock])
  BY FileStep
<1>2. IInv /\ [Next]_vars =>
        [edition' # edition /\ disk = "ok" => lock # NoProc /\ based[lock]]_vars
  BY <1>1
<1> QED BY <1>2, Invariance, PTL DEF Spec, SavesKeepLineage

\* No pass replaces a state file a newer binary wrote.
THEOREM NewerKept == Spec => NewerFileSurvives
<1>1. IInv /\ [Next]_vars =>
        [lock # NoProc /\ disk = "newer" => disk' = "newer"]_vars
  BY FileStep
<1> QED BY <1>1, Invariance, PTL DEF Spec, NewerFileSurvives

\* No pass destroys corrupt bytes it has not preserved.
THEOREM EvidenceKept == Spec => EvidencePreserved
<1>1. IInv /\ [Next]_vars =>
        [lock # NoProc /\ disk = "corrupt" /\ disk' # "corrupt"
           => disk' = "absent" /\ corruptCopy']_vars
  BY FileStep
<1> QED BY <1>1, Invariance, PTL DEF Spec, EvidencePreserved
=============================================================================
