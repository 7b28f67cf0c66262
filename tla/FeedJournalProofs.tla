------------------------- MODULE FeedJournalProofs --------------------------
(***************************************************************************)
(* The inductive invariant of FeedJournal, for any listings, trackers,     *)
(* configurations, age limit and log cap, and what follows from it: the    *)
(* journal announces a release at most once.                               *)
(***************************************************************************)
EXTENDS FeedJournal, TLAPS

USE ConstantsAssumption

Keyed(l) == l \in Listings /\ KeyOf[l] # NoKey

-----------------------------------------------------------------------------
(* Types of what a pass derives.                                           *)

\* What a listing shows of its hash is a hash or nothing.
LEMMA ShownHashType ==
    ASSUME NEW l \in Listings
    PROVE  ShownHash(l) \in Hashes \cup {NoHash}
BY DEF ShownHash, Hashes

\* The signals of a key and a hash are signals.
LEMMA SignalsType ==
    ASSUME NEW k \in Keys, NEW h \in Hashes \cup {NoHash}
    PROVE  SignalsOf(k, h) \in SUBSET Signals
BY DEF SignalsOf, Signals, Scopes

\* So are those of a listing with a key.
LEMMA ListingSignalsType ==
    ASSUME NEW l, Keyed(l)
    PROVE  /\ PublicationSignals(l) \in SUBSET Signals
           /\ <<"key", KeyOf[l]>> \in PublicationSignals(l)
<1>1. KeyOf[l] \in Keys /\ l \in Listings  BY DEF Keyed
<1>2. PublicationSignals(l) \in SUBSET Signals
    BY <1>1, ShownHashType, SignalsType DEF PublicationSignals
<1> QED  BY <1>2 DEF PublicationSignals, SignalsOf

\* And those of an item.
LEMMA ItemSignalsType ==
    ASSUME NEW it \in Items
    PROVE  /\ ItemSignals(it) \in SUBSET Signals
           /\ <<"key", it.key>> \in ItemSignals(it)
<1>1. it.key \in Keys /\ it.hash \in Hashes \cup {NoHash}  BY DEF Items
<1>2. ItemSignals(it) \in SUBSET Signals  BY <1>1, SignalsType DEF ItemSignals
<1> QED  BY <1>2 DEF ItemSignals, SignalsOf

\* A baseline forfeits signals.
LEMMA BaselineType ==
    ASSUME NEW L \in SUBSET Listings
    PROVE  BaselinePublications(L) \in SUBSET Signals
BY ListingSignalsType DEF BaselinePublications, Keyed

\* What is kept is listed.
LEMMA KeptType ==
    ASSUME NEW scope
    PROVE  Kept(scope) \in SUBSET Listings
BY DEF Kept, Fetched

\* A rendered item is an item of its key, with the hash of a kept listing.
LEMMA RenderType ==
    ASSUME NEW k \in Keys, NEW L \in SUBSET Listings, NEW age \in Ages,
           Renderable(k, L) # {}
    PROVE  /\ RenderJournalItem(k, L, age) \in Items
           /\ RenderJournalItem(k, L, age).key = k
           /\ RenderJournalItem(k, L, age).age = age
           /\ \E l \in L : /\ Keyed(l)
                           /\ ItemSignals(RenderJournalItem(k, L, age))
                                  = PublicationSignals(l)
<1> DEFINE occ == CHOOSE l \in Renderable(k, L) : TRUE
<1>1. occ \in Renderable(k, L)  OBVIOUS
<1>2. occ \in L /\ occ \in Listings /\ KeyOf[occ] = k  BY <1>1 DEF Renderable
<1>3. RenderJournalItem(k, L, age) = [key |-> k, hash |-> ShownHash(occ), age |-> age]
    BY DEF RenderJournalItem
<1>4. ShownHash(occ) \in Hashes \cup {NoHash}  BY <1>2, ShownHashType
<1> HIDE DEF occ
<1>5. RenderJournalItem(k, L, age) \in Items  BY <1>3, <1>4 DEF Items
<1>6. ItemSignals(RenderJournalItem(k, L, age)) = PublicationSignals(occ)
    BY <1>2, <1>3 DEF ItemSignals, PublicationSignals
<1>7. Keyed(occ)  BY <1>2 DEF Keyed
<1> QED  BY <1>2, <1>3, <1>5, <1>6, <1>7

-----------------------------------------------------------------------------
(* Carrying a journal.                                                     *)

\* A carried item is an item of the same key, with the signals of the stored
\* item or of a kept listing.
CarriedFrom(new, it, L) ==
    /\ new \in Items
    /\ new.key = it.key
    /\ \/ ItemSignals(new) = ItemSignals(it)
       \/ \E l \in L : Keyed(l) /\ ItemSignals(new) = PublicationSignals(l)

LEMMA CarryItemFrom ==
    ASSUME NEW it \in Items, NEW scope, NEW new \in CarryItem(it, scope)
    PROVE  /\ CarriedFrom(new, it, Kept(scope))
           /\ \A other \in CarryItem(it, scope) : other = new
<1> DEFINE dated == [it EXCEPT !.age = IF it.age < 0 THEN 0 ELSE it.age]
           L == Kept(scope)
<1>1. /\ dated \in Items /\ dated.key = it.key /\ dated.hash = it.hash
      /\ dated.age \in Ages
    BY DEF Items, Ages
<1>2. ItemSignals(dated) = ItemSignals(it)  BY <1>1 DEF ItemSignals
<1>3. L \in SUBSET Listings  BY KeptType
<1>4. CarryItem(it, scope) \subseteq CarryUnderPolicy(dated, scope, L)
    BY DEF CarryItem
<1>5. \/ CarryUnderPolicy(dated, scope, L) = {dated}
      \/ CarryUnderPolicy(dated, scope, L) = {}
      \/ /\ Renderable(dated.key, L) # {}
         /\ CarryUnderPolicy(dated, scope, L)
                = {RenderJournalItem(dated.key, L, dated.age)}
    BY DEF CarryUnderPolicy, RefreshCarriedItem, CarryStoredItem
<1>6. dated.key \in Keys  BY <1>1 DEF Items
<1> HIDE DEF dated, L
<1>7. CASE CarryUnderPolicy(dated, scope, L) = {dated}
    BY <1>1, <1>2, <1>4, <1>7 DEF CarriedFrom
<1>8. CASE /\ Renderable(dated.key, L) # {}
           /\ CarryUnderPolicy(dated, scope, L)
                = {RenderJournalItem(dated.key, L, dated.age)}
    <2>1. CarriedFrom(RenderJournalItem(dated.key, L, dated.age), it, L)
        BY <1>1, <1>3, <1>6, <1>8, RenderType DEF CarriedFrom
    <2> QED  BY <1>4, <1>8, <2>1 DEF L
<1> QED  BY <1>4, <1>5, <1>7, <1>8 DEF L

\* So a journal with one item per key is carried to one.
LEMMA CarryJournalFrom ==
    ASSUME NEW journal \in SUBSET Items, NEW scope, UniqueKeys(journal)
    PROVE  /\ CarryJournal(journal, scope) \in SUBSET Items
           /\ UniqueKeys(CarryJournal(journal, scope))
           /\ \A new \in CarryJournal(journal, scope) :
                  \E it \in journal : CarriedFrom(new, it, Kept(scope))
<1>1. \A new \in CarryJournal(journal, scope) :
          \E it \in journal : /\ new \in CarryItem(it, scope)
                              /\ CarriedFrom(new, it, Kept(scope))
    BY CarryItemFrom DEF CarryJournal
<1>2. UniqueKeys(CarryJournal(journal, scope))
    <2> SUFFICES ASSUME NEW i \in CarryJournal(journal, scope),
                        NEW j \in CarryJournal(journal, scope), i.key = j.key
                 PROVE  i = j
        BY DEF UniqueKeys
    <2>1. PICK a \in journal : i \in CarryItem(a, scope) /\ i.key = a.key
        BY <1>1 DEF CarriedFrom
    <2>2. PICK b \in journal : j \in CarryItem(b, scope) /\ j.key = b.key
        BY <1>1 DEF CarriedFrom
    <2>3. a = b  BY <2>1, <2>2 DEF UniqueKeys
    <2> QED  BY <2>1, <2>2, <2>3, CarryItemFrom
<1> QED  BY <1>1, <1>2 DEF CarriedFrom

-----------------------------------------------------------------------------
(* Steps outside a pass.                                                   *)

\* A baseline's forfeit is a function of the world, which only changes
\* between passes.
LEMMA ForfeitStable ==
    ASSUME UNCHANGED world
    PROVE  BaselinePublications(Kept("catalogue"))'
               = BaselinePublications(Kept("catalogue"))
BY DEF world, BaselinePublications, PublicationSignals, ShownHash, Kept,
       Fetched, Warned, Excluded, SameRelease, Identities

\* Moving the clock keeps keys, signals and the log.
LEMMA RedateKeeps ==
    ASSUME TypeOK, JournalCovered, NEW move \in [Ages -> Ages],
           file' = Redate(move)
    PROVE  /\ file' \in [state : {"absent", "ok", "unusable"},
                        published : SUBSET Signals, journal : SUBSET Items]
           /\ JournalCovered'
           /\ file'.published = file.published /\ file'.state = file.state
           /\ {it.key : it \in file'.journal} = {it.key : it \in file.journal}
<1> DEFINE moved(it) == [it EXCEPT !.age = move[it.age]]
<1>1. /\ file \in [state : {"absent", "ok", "unusable"}, published : SUBSET Signals,
                   journal : SUBSET Items]
      /\ file' = [file EXCEPT !.journal = {moved(it) : it \in file.journal}]
    BY DEF TypeOK, Redate
<1>2. \A it \in file.journal :
          /\ moved(it) \in Items /\ moved(it).key = it.key /\ moved(it).hash = it.hash
    BY <1>1 DEF Items
<1>3. \A it \in file.journal : ItemSignals(moved(it)) = ItemSignals(it)
    BY <1>2 DEF ItemSignals
<1> HIDE DEF moved
<1>4. /\ file'.journal = {moved(it) : it \in file.journal}
      /\ file'.published = file.published /\ file'.state = file.state
    BY <1>1
<1>5. UniqueKeys(file'.journal)
    BY <1>2, <1>4 DEF JournalCovered, UniqueKeys
<1>6. \A it \in file'.journal : ItemSignals(it) \subseteq file'.published
    BY <1>3, <1>4 DEF JournalCovered
<1>7. JournalCovered'  BY <1>5, <1>6 DEF JournalCovered, UniqueKeys, ItemSignals
<1>8. file'.journal \in SUBSET Items  BY <1>2, <1>4
<1>9. {it.key : it \in file'.journal} = {it.key : it \in file.journal}
    BY <1>2, <1>4
<1> QED  BY <1>1, <1>4, <1>7, <1>8, <1>9

\* A step between passes that moves neither the log nor the journal's keys.
LEMMA OutsidePass ==
    ASSUME IInv, ~pass.on, pass' = pass, known' = known, TypeOK', JournalCovered',
           file'.published = file.published, file'.state = file.state
    PROVE  IInv'
BY DEF IInv, PassStartsFromFile, PassCovered, DoneRecorded, TodoKeyed, GrowthIsNew, KnownPublished,
       LogPersistable, WithinLimits

LEMMA WorldStep ==
    ASSUME IInv, World
    PROVE  IInv'
<1> USE DEF IInv
<1>1. ASSUME NEW l \in Listings, NEW s \in Statuses, Edit(l, s)
      PROVE  IInv'
    <2>1. TypeOK'  BY <1>1 DEF TypeOK, Edit, Idle
    <2>2. JournalCovered'
        BY <1>1 DEF Edit, JournalCovered, UniqueKeys, ItemSignals
    <2> QED  BY <1>1, <2>1, <2>2, OutsidePass DEF Edit
<1>2. ASSUME NEW k \in Keys, Reorder(k)
      PROVE  IInv'
    <2>1. TypeOK'  BY <1>2 DEF TypeOK, Reorder, Idle
    <2>2. JournalCovered'
        BY <1>2 DEF Reorder, JournalCovered, UniqueKeys, ItemSignals
    <2> QED  BY <1>2, <2>1, <2>2, OutsidePass DEF Reorder
<1>3. ASSUME ClockStep
      PROVE  IInv'
    <2> DEFINE move == [n \in Ages |-> IF n > MaxAge THEN n ELSE n + 1]
    <2>1. move \in [Ages -> Ages]  BY DEF Ages
    <2>2. file' = Redate(move)  BY <1>3 DEF ClockStep
    <2> HIDE DEF move
    <2>3. TypeOK'  BY <1>3, <2>1, <2>2, RedateKeeps DEF TypeOK, ClockStep, Idle
    <2> QED  BY <1>3, <2>1, <2>2, <2>3, RedateKeeps, OutsidePass DEF ClockStep
<1>4. ASSUME ClockRollback
      PROVE  IInv'
    <2> DEFINE move == [n \in Ages |-> IF n < 0 THEN n ELSE n - 1]
    <2>1. move \in [Ages -> Ages]  BY DEF Ages
    <2>2. file' = Redate(move)  BY <1>4 DEF ClockRollback
    <2> HIDE DEF move
    <2>3. TypeOK'
        BY <1>4, <2>1, <2>2, RedateKeeps DEF TypeOK, ClockRollback, world, Idle
    <2> QED  BY <1>4, <2>1, <2>2, <2>3, RedateKeeps, OutsidePass DEF ClockRollback
<1>5. ASSUME Reconfigure
      PROVE  IInv'
    <2>1. TypeOK'  BY <1>5 DEF TypeOK, Reconfigure, Idle
    <2>2. JournalCovered'
        BY <1>5 DEF Reconfigure, JournalCovered, UniqueKeys, ItemSignals
    <2> QED  BY <1>5, <2>1, <2>2, OutsidePass DEF Reconfigure
<1>6. ASSUME LoseFile
      PROVE  IInv'
    <2>1. /\ file' = [file EXCEPT !.state = "unusable"]
          /\ UNCHANGED <<world, pass, known>>
        BY <1>6 DEF LoseFile
    <2>2. /\ file'.published = file.published /\ file'.journal = file.journal
          /\ file'.state = "unusable"
        BY <2>1 DEF TypeOK
    <2>3. TypeOK'  BY <2>1 DEF TypeOK, world, Idle
    <2>4. JournalCovered'  BY <2>2 DEF JournalCovered, UniqueKeys, ItemSignals
    <2>5. PassStartsFromFile'
        BY <2>1, <2>2, ForfeitStable DEF PassStartsFromFile
    <2>6. PassCovered'
        BY <2>1 DEF PassCovered, UniqueKeys, ItemSignals, PublicationSignals,
                    ShownHash, Log, world
    <2>7. DoneRecorded'
        BY <2>1 DEF DoneRecorded, PublicationSignals, ShownHash, Log, Enabled,
                    Renderable, JournalLink, world
    <2>8. GrowthIsNew'
        BY <2>1, <2>2 DEF GrowthIsNew, ItemSignals, ShownHash, world
    <2> QED  BY <2>1, <2>2, <2>3, <2>4, <2>5, <2>6, <2>7, <2>8
             DEF KnownPublished, LogPersistable, TodoKeyed
<1> QED  BY <1>1, <1>2, <1>3, <1>4, <1>5, <1>6 DEF World

-----------------------------------------------------------------------------
(* The steps of a pass.                                                    *)

LEMMA StartBaselineStep ==
    ASSUME IInv, NEW scope \in {"catalogue", "window"}, StartBaseline(scope)
    PROVE  IInv'
<1> USE DEF IInv
<1>1. /\ UNCHANGED <<world, file, known>>
      /\ scope = "catalogue"
      /\ pass' = [on |-> TRUE, scope |-> scope, baseline |-> TRUE,
                  kept |-> Kept(scope), todo |-> {}, prev |-> {},
                  publish |-> BaselinePublications(Kept(scope)), journal |-> {}]
    BY DEF StartBaseline
<1>2. /\ Kept(scope) \in SUBSET Listings
      /\ BaselinePublications(Kept(scope)) \in SUBSET Signals
    BY KeptType, BaselineType
<1>3. pass' \in Passes  BY <1>1, <1>2 DEF Passes
<1>4. TypeOK'  BY <1>1, <1>3 DEF TypeOK, world
<1>5. JournalCovered'  BY <1>1 DEF JournalCovered, UniqueKeys, ItemSignals
<1>6. PassStartsFromFile'  BY <1>1, ForfeitStable DEF PassStartsFromFile
<1>7. PassCovered' /\ DoneRecorded' /\ GrowthIsNew'
    BY <1>1 DEF PassCovered, DoneRecorded, UniqueKeys, GrowthIsNew
<1> QED  BY <1>1, <1>4, <1>5, <1>6, <1>7
         DEF KnownPublished, LogPersistable, WithinLimits, TodoKeyed

LEMMA StartCarryStep ==
    ASSUME IInv, NEW scope \in {"catalogue", "window"}, StartCarry(scope)
    PROVE  IInv'
<1> USE DEF IInv
<1> DEFINE K == Kept(scope)
           T == {l \in K : KeyOf[l] # NoKey}
           J == CarryJournal(file.journal, scope)
<1>1. /\ UNCHANGED <<world, file, known>>
      /\ pass' = [on |-> TRUE, scope |-> scope, baseline |-> FALSE, kept |-> K,
                  todo |-> T, prev |-> file.published, publish |-> {}, journal |-> J]
    BY DEF StartCarry
<1>2. K \in SUBSET Listings /\ T \in SUBSET Listings  BY KeptType
<1>3. /\ file.journal \in SUBSET Items /\ file.published \in SUBSET Signals
      /\ UniqueKeys(file.journal)
      /\ \A it \in file.journal : ItemSignals(it) \subseteq file.published
    BY DEF TypeOK, JournalCovered
<1>4. /\ J \in SUBSET Items /\ UniqueKeys(J)
      /\ \A new \in J : \E it \in file.journal : CarriedFrom(new, it, K)
    BY <1>3, CarryJournalFrom
<1>5. \A new \in J : /\ <<"key", new.key>> \in file.published
                     /\ \/ ItemSignals(new) \subseteq file.published
                        \/ \E l \in T : ItemSignals(new) = PublicationSignals(l)
    <2> TAKE new \in J
    <2>1. PICK it \in file.journal : CarriedFrom(new, it, K)  BY <1>4
    <2>2. <<"key", new.key>> \in file.published
        BY <1>3, <2>1, ItemSignalsType DEF CarriedFrom
    <2> QED  BY <1>3, <2>1, <2>2 DEF CarriedFrom, Keyed
<1> HIDE DEF K, T, J
<1>6. pass' \in Passes  BY <1>1, <1>2, <1>3, <1>4 DEF Passes
<1>7. TypeOK'  BY <1>1, <1>6 DEF TypeOK, world
<1>8. JournalCovered'  BY <1>1 DEF JournalCovered, UniqueKeys, ItemSignals
<1>9. PassStartsFromFile'  BY <1>1 DEF PassStartsFromFile
<1>10. PassCovered'
    BY <1>1, <1>4, <1>5 DEF PassCovered, Log, UniqueKeys, ItemSignals,
                            PublicationSignals, ShownHash, world
<1>11. DoneRecorded'
    BY <1>1 DEF DoneRecorded, T
<1>12. TodoKeyed'  BY <1>1 DEF TodoKeyed, T
<1>13. GrowthIsNew'
    BY <1>1, <1>4 DEF GrowthIsNew, CarriedFrom
<1> QED  BY <1>1, <1>7, <1>8, <1>9, <1>10, <1>11, <1>12, <1>13
         DEF KnownPublished, LogPersistable, WithinLimits, TodoKeyed

\* What a growth step does to the pass: one listing is done with, its signals
\* may be recorded, an item may be added.
GrowthStep(l, P, J) ==
    /\ UNCHANGED <<world, file, known>>
    /\ pass' = [pass EXCEPT !.todo = @ \ {l}, !.publish = P, !.journal = J]

\* Such a step keeps the invariant when what it adds is covered.
LEMMA GrowthKeeps ==
    ASSUME IInv, NEW l \in Listings, NEW P \in SUBSET Signals,
           NEW J \in SUBSET Items,
           pass.on, l \in pass.todo, GrowthStep(l, P, J),
           UniqueKeys(J), pass.publish \subseteq P,
           \A it \in J : /\ <<"key", it.key>> \in pass.prev \cup P
                         /\ \/ ItemSignals(it) \subseteq pass.prev \cup P
                            \/ \E m \in pass.todo \ {l} :
                                   ItemSignals(it) = PublicationSignals(m),
           \A it \in J :
               \/ it \in pass.journal
               \/ /\ <<"key", it.key>> \notin pass.prev
                  /\ \/ ItemSignals(it) \cap pass.prev = {}
                     \/ \E m \in pass.kept :
                            KeyOf[m] = it.key /\ ShownHash(m) # it.hash,
           KeyOf[l] # NoKey =>
               \/ PublicationSignals(l) \subseteq pass.prev \cup P
               \/ Enabled(l) /\ Renderable(KeyOf[l], pass.kept) = {}
    PROVE  IInv'
<1> USE DEF IInv
<1>1. /\ UNCHANGED <<world, file, known>>
      /\ pass \in Passes
    BY DEF GrowthStep, TypeOK, Idle
<1>2. /\ pass' \in Passes
      /\ pass'.on /\ pass'.scope = pass.scope /\ pass'.baseline = pass.baseline
      /\ pass'.kept = pass.kept /\ pass'.todo = pass.todo \ {l}
      /\ pass'.prev = pass.prev /\ pass'.publish = P /\ pass'.journal = J
    BY <1>1 DEF GrowthStep, Passes
<1>3. TypeOK'  BY <1>1, <1>2 DEF TypeOK, world
<1>4. JournalCovered'  BY <1>1 DEF JournalCovered, UniqueKeys, ItemSignals
<1>5. PassStartsFromFile'
    BY <1>1, <1>2 DEF PassStartsFromFile
<1>6. Log' = pass.prev \cup P /\ Log \subseteq Log'
    BY <1>2 DEF Log
<1>7. PassCovered'
    BY <1>1, <1>2, <1>6 DEF PassCovered, UniqueKeys, ItemSignals,
                            PublicationSignals, ShownHash, world
<1>8. DoneRecorded'
    <2>1. \A m \in pass.kept \ (pass.todo \ {l}) : KeyOf[m] # NoKey /\ ~pass.baseline =>
              \/ PublicationSignals(m) \subseteq pass.prev \cup P
              \/ Enabled(m) /\ Renderable(KeyOf[m], pass.kept) = {}
        BY DEF DoneRecorded, Log
    <2>2. /\ site' = site /\ config' = config  BY <1>1 DEF world
    <2> QED  BY <1>2, <1>6, <2>1, <2>2
             DEF DoneRecorded, PublicationSignals, ShownHash, Enabled,
                 Renderable, JournalLink
<1>9. GrowthIsNew'
    BY <1>1, <1>2 DEF GrowthIsNew, ItemSignals, ShownHash, world
<1> QED  BY <1>1, <1>2, <1>3, <1>4, <1>5, <1>7, <1>8, <1>9
         DEF KnownPublished, LogPersistable, WithinLimits, TodoKeyed

LEMMA JournalIfNewStep ==
    ASSUME IInv, NEW l \in Listings, JournalIfNew(l)
    PROVE  IInv'
<1> USE DEF IInv
<1>1. /\ pass \in Passes /\ pass.on /\ l \in pass.todo
      /\ UNCHANGED <<world, file, known>>
    BY DEF JournalIfNew, GrowKnown, GrowDisabled, GrowUnservable, GrowNew, Growing,
           TypeOK, Idle
<1>2. /\ pass.prev \in SUBSET Signals /\ pass.publish \in SUBSET Signals
      /\ pass.journal \in SUBSET Items /\ pass.todo \in SUBSET Listings
      /\ pass.kept \in SUBSET Listings
    BY <1>1 DEF Passes
<1>3. ~pass.baseline /\ Keyed(l)
    BY <1>1 DEF PassStartsFromFile, TodoKeyed, Keyed
<1>4. Recorded(l) \in SUBSET Signals /\ PublicationSignals(l) \subseteq Recorded(l)
      /\ pass.publish \subseteq Recorded(l)
    BY <1>2, <1>3, ListingSignalsType DEF Recorded
<1>5. /\ UniqueKeys(pass.journal)
      /\ \A it \in pass.journal :
             /\ <<"key", it.key>> \in pass.prev \cup pass.publish
             /\ \/ ItemSignals(it) \subseteq pass.prev \cup pass.publish
                \/ \E m \in pass.todo : ItemSignals(it) = PublicationSignals(m)
    BY <1>1 DEF PassCovered, Log
<1>6. CASE GrowKnown(l) \/ GrowDisabled(l)
    <2>1. GrowthStep(l, Recorded(l), pass.journal)
        BY <1>1, <1>6 DEF GrowKnown, GrowDisabled, GrowthStep, Passes
    <2>2. \A it \in pass.journal :
             /\ <<"key", it.key>> \in pass.prev \cup Recorded(l)
             /\ \/ ItemSignals(it) \subseteq pass.prev \cup Recorded(l)
                \/ \E m \in pass.todo \ {l} : ItemSignals(it) = PublicationSignals(m)
        BY <1>4, <1>5
    <2> QED  BY <1>1, <1>2, <1>4, <1>5, <2>1, <2>2, GrowthKeeps
<1>7. CASE GrowUnservable(l)
    <2>1. GrowthStep(l, pass.publish, pass.journal)
        BY <1>1, <1>7 DEF GrowUnservable, GrowthStep, Passes
    <2>2. ~AlreadyPublished(l) /\ Enabled(l) /\ Renderable(KeyOf[l], pass.kept) = {}
        BY <1>7 DEF GrowUnservable
    <2>3. \A it \in pass.journal : ItemSignals(it) # PublicationSignals(l)
        <3> SUFFICES ASSUME NEW it \in pass.journal,
                            ItemSignals(it) = PublicationSignals(l)
                     PROVE  FALSE
            OBVIOUS
        <3>1. <<"key", it.key>> \in PublicationSignals(l)
            BY <1>2, ItemSignalsType
        <3> QED  BY <1>5, <2>2, <3>1 DEF AlreadyPublished
    <2> QED  BY <1>1, <1>2, <1>5, <2>1, <2>2, <2>3, GrowthKeeps
<1>8. CASE GrowNew(l)
    <2> DEFINE new == RenderJournalItem(KeyOf[l], pass.kept, 0)
               J == pass.journal \cup {new}
    <2>1. GrowthStep(l, Recorded(l), J)
        BY <1>1, <1>8 DEF GrowNew, GrowthStep, Passes
    <2>2. /\ ~AlreadyPublished(l) /\ Enabled(l)
          /\ Renderable(KeyOf[l], pass.kept) # {}
        BY <1>8 DEF GrowNew
    <2>3. KeyOf[l] \in Keys  BY <1>3 DEF Keyed
    <2>4. PICK m \in pass.kept : Keyed(m) /\ ItemSignals(new) = PublicationSignals(m)
        BY <1>2, <2>2, <2>3, RenderType DEF Ages
    <2>5. new \in Items /\ new.key = KeyOf[l]
        BY <1>2, <2>2, <2>3, RenderType DEF Ages
    <2> HIDE DEF new
    <2>6. <<"key", new.key>> \in PublicationSignals(l)
        BY <1>3, <2>5, ListingSignalsType
    <2>7. \A it \in pass.journal : it.key # new.key
        BY <1>5, <2>2, <2>6 DEF AlreadyPublished
    <2>8. UniqueKeys(J)  BY <1>5, <2>7 DEF UniqueKeys
    <2>9. KeyOf[m] = KeyOf[l]
        <3>1. <<"key", new.key>> \in PublicationSignals(m)
            BY <2>4, <2>5, ItemSignalsType
        <3>2. KeyOf[m] \in Keys /\ ScopeOf[KeyOf[m]] \in Scopes
            BY <2>4 DEF Keyed, Scopes
        <3> QED  BY <2>5, <3>1, <3>2 DEF PublicationSignals, SignalsOf
    <2>10. \/ PublicationSignals(m) \subseteq pass.prev \cup Recorded(l)
           \/ m \in pass.todo \ {l}
        <3>1. CASE m = l  BY <1>4, <3>1
        <3>2. CASE m # l /\ m \notin pass.todo
            <4>1. PublicationSignals(m) \subseteq Log
                BY <1>1, <1>3, <2>2, <2>4, <2>9, <3>2 DEF DoneRecorded, Keyed
            <4> QED  BY <1>1, <1>4, <4>1 DEF Log
        <3> QED  BY <3>1, <3>2
    <2>11. \A it \in J :
             /\ <<"key", it.key>> \in pass.prev \cup Recorded(l)
             /\ \/ ItemSignals(it) \subseteq pass.prev \cup Recorded(l)
                \/ \E n \in pass.todo \ {l} : ItemSignals(it) = PublicationSignals(n)
        BY <1>4, <1>5, <2>4, <2>6, <2>10
    <2>12. J \in SUBSET Items  BY <1>2, <2>5
    <2>13. /\ <<"key", new.key>> \notin pass.prev
           /\ \/ ItemSignals(new) \cap pass.prev = {}
              \/ ShownHash(l) # new.hash
        <3>1. PublicationSignals(l) \cap pass.prev = {}
            BY <2>2 DEF AlreadyPublished
        <3>2. ShownHash(l) = new.hash => ItemSignals(new) = PublicationSignals(l)
            BY <2>5 DEF ItemSignals, PublicationSignals
        <3> QED  BY <2>6, <3>1, <3>2
    <2>14. l \in pass.kept \/ ItemSignals(new) \cap pass.prev = {}
        BY <1>1 DEF TodoKeyed
    <2>15. \A it \in J :
               \/ it \in pass.journal
               \/ /\ <<"key", it.key>> \notin pass.prev
                  /\ \/ ItemSignals(it) \cap pass.prev = {}
                     \/ \E n \in pass.kept : KeyOf[n] = it.key /\ ShownHash(n) # it.hash
        BY <2>5, <2>13, <2>14
    <2> HIDE DEF J
    <2> QED  BY <1>1, <1>2, <1>4, <2>1, <2>8, <2>11, <2>12, <2>15, GrowthKeeps
<1> QED  BY <1>6, <1>7, <1>8 DEF JournalIfNew

\* What is no news any more is in the log the pass writes.
LEMMA NewsLogged ==
    ASSUME IInv, pass.on, pass.todo = {}
    PROVE  News \subseteq pass.prev \cup pass.publish
<1> USE DEF IInv
<1>1. Log = pass.prev \cup pass.publish  BY DEF Log
<1>2. \A it \in pass.journal : ItemSignals(it) \subseteq Log
    BY DEF PassCovered
<1> DEFINE listed == UNION {ItemSignals(it) : it \in pass.journal}
<1>5. listed \subseteq Log
    BY <1>2
<1>3. CASE pass.baseline
    <2>1. News = BaselinePublications(Kept("catalogue")) \cup listed
        BY <1>3 DEF News
    <2>2. BaselinePublications(Kept("catalogue")) \subseteq pass.publish
        BY <1>3 DEF PassStartsFromFile
    <2> HIDE DEF listed
    <2> QED  BY <1>1, <1>5, <2>1, <2>2
<1>4. CASE ~pass.baseline
    <2> DEFINE F == {l \in pass.kept : KeyOf[l] # NoKey /\ ~Enabled(l)}
    <2>1. \A l \in F : PublicationSignals(l) \subseteq Log
        BY <1>4 DEF DoneRecorded
    <2>2. BaselinePublications(F) \subseteq Log
        BY <2>1 DEF BaselinePublications
    <2>3. News = BaselinePublications(F) \cup listed
        BY <1>4 DEF News
    <2> HIDE DEF F, listed
    <2> QED  BY <1>1, <1>5, <2>2, <2>3
<1> QED  BY <1>3, <1>4

\* What Persist writes, field by field.
LEMMA PersistWrites ==
    ASSUME IInv, Persist
    PROVE  /\ pass.on /\ pass \in Passes /\ pass.todo = {}
           /\ file'.state = "ok" /\ file'.journal = pass.journal
           /\ file'.published = pass.prev \cup pass.publish
           /\ file' \in [state : {"absent", "ok", "unusable"},
                        published : SUBSET Signals, journal : SUBSET Items]
           /\ WithinLimits(pass.prev \cup pass.publish)
           /\ pass' = Idle /\ UNCHANGED world
           /\ known' = (IF pass.baseline THEN {} ELSE known) \cup News
<1>1. pass.on /\ pass.todo = {}  BY DEF Persist
<1>2. pass \in Passes  BY <1>1 DEF IInv, TypeOK, Idle
<1>3. /\ pass.journal \in SUBSET Items /\ pass.prev \in SUBSET Signals
      /\ pass.publish \in SUBSET Signals
    BY <1>2 DEF Passes
<1> QED  BY <1>1, <1>2, <1>3 DEF Persist, AppendPublished, Release

LEMMA PersistStep ==
    ASSUME IInv, Persist
    PROVE  IInv'
<1>1. /\ pass.on /\ pass \in Passes /\ pass.todo = {}
      /\ file'.state = "ok" /\ file'.journal = pass.journal
      /\ file'.published = pass.prev \cup pass.publish
      /\ file' \in [state : {"absent", "ok", "unusable"},
                   published : SUBSET Signals, journal : SUBSET Items]
      /\ WithinLimits(pass.prev \cup pass.publish)
      /\ pass' = Idle /\ UNCHANGED world
      /\ known' = (IF pass.baseline THEN {} ELSE known) \cup News
    BY PersistWrites
<1>2. ~pass'.on  BY <1>1 DEF Idle
<1>3. News \subseteq pass.prev \cup pass.publish  BY <1>1, NewsLogged
<1>4. ~pass.baseline => known \subseteq pass.prev
    BY <1>1 DEF IInv, KnownPublished, PassStartsFromFile
<1>5. KnownPublished'  BY <1>1, <1>3, <1>4 DEF KnownPublished
<1>6. pass.prev \cup pass.publish \in SUBSET Signals  BY <1>1 DEF Passes
<1>7. known' \in SUBSET Signals  BY <1>1, <1>5, <1>6 DEF KnownPublished
<1>8. TypeOK'  BY <1>1, <1>7 DEF IInv, TypeOK, world
<1>9. /\ UniqueKeys(pass.journal)
      /\ \A it \in pass.journal : ItemSignals(it) \subseteq pass.prev \cup pass.publish
    BY <1>1 DEF IInv, PassCovered, Log
<1>10. JournalCovered'
    BY <1>1, <1>9 DEF JournalCovered, UniqueKeys, ItemSignals
<1>11. LogPersistable'  BY <1>1 DEF LogPersistable, WithinLimits
<1> QED  BY <1>2, <1>5, <1>8, <1>10, <1>11
         DEF IInv, PassStartsFromFile, PassCovered, DoneRecorded, TodoKeyed, GrowthIsNew

LEMMA AbandonStep ==
    ASSUME IInv, Abandon
    PROVE  IInv'
<1>1. pass' = Idle /\ ~pass'.on /\ UNCHANGED <<world, file, known>>
    BY DEF Abandon, Release, Idle
<1>2. TypeOK'  BY <1>1 DEF IInv, TypeOK, world
<1>3. JournalCovered'
    BY <1>1 DEF IInv, JournalCovered, UniqueKeys, ItemSignals
<1> QED  BY <1>1, <1>2, <1>3
         DEF IInv, PassStartsFromFile, PassCovered, DoneRecorded, TodoKeyed,
             GrowthIsNew, KnownPublished, LogPersistable, WithinLimits

LEMMA StutterStep ==
    ASSUME IInv, UNCHANGED vars
    PROVE  IInv'
<1>1. UNCHANGED <<world, file, pass, known>>  BY DEF vars, world
<1>2. TypeOK'  BY <1>1 DEF IInv, TypeOK, world
<1>3. JournalCovered' /\ PassCovered' /\ TodoKeyed' /\ GrowthIsNew'
    BY <1>1 DEF IInv, JournalCovered, PassCovered, TodoKeyed, GrowthIsNew, UniqueKeys,
                ItemSignals, PublicationSignals, ShownHash, Log, world
<1>4. DoneRecorded'
    BY <1>1 DEF IInv, DoneRecorded, PublicationSignals, ShownHash, Log, Enabled,
                Renderable, JournalLink, world
<1>5. PassStartsFromFile'  BY <1>1, ForfeitStable DEF IInv, PassStartsFromFile
<1> QED  BY <1>1, <1>2, <1>3, <1>4, <1>5
         DEF IInv, KnownPublished, LogPersistable, WithinLimits

\* Every reachable state is well typed; the log covers all the journal lists
\* and all that is no news; the journal has one item per key; no written log
\* is over its cap (FeedWriter.run).
THEOREM Invariance == Spec => []IInv
<1>1. Init => IInv
    BY DEF Init, IInv, TypeOK, NoFile, Idle, PassStartsFromFile, JournalCovered,
           PassCovered, DoneRecorded, TodoKeyed, GrowthIsNew, KnownPublished,
           LogPersistable, UniqueKeys
<1>2. IInv /\ [Next]_vars => IInv'
    BY WorldStep, StartBaselineStep, StartCarryStep, JournalIfNewStep, PersistStep,
       AbandonStep, StutterStep DEF Next, Pass
<1> QED  BY <1>1, <1>2, PTL DEF Spec

-----------------------------------------------------------------------------
(* What follows.                                                           *)

\* Only Persist changes the file when a pass ends.
LEMMA PersistedByPersist ==
    ASSUME IInv, [Next]_vars, Persisted
    PROVE  Persist
BY DEF Persisted, Next, Pass, World, StartBaseline, StartCarry, JournalIfNew,
       GrowKnown, GrowDisabled, GrowUnservable, GrowNew, Growing, Abandon, Edit,
       Reorder, ClockStep, ClockRollback, Reconfigure, LoseFile, vars

\* No release is announced twice, nor after it was forfeited, whatever the
\* site, the configuration, the clock and the file go through
\* (journalIfNew, alreadyPublished).
THEOREM NeverRebroadcast == Spec => NoRebroadcast
<1>1. IInv /\ [Next]_vars =>
          [Persisted => \A it \in Added :
              /\ <<"key", it.key>> \notin known
              /\ \/ ItemSignals(it) \cap known = {}
                 \/ \E l \in pass.kept : KeyOf[l] = it.key /\ ShownHash(l) # it.hash]_vars
    <2> SUFFICES ASSUME IInv, [Next]_vars, Persisted, NEW it \in Added
                 PROVE  /\ <<"key", it.key>> \notin known
                        /\ \/ ItemSignals(it) \cap known = {}
                           \/ \E l \in pass.kept : KeyOf[l] = it.key /\ ShownHash(l) # it.hash
        OBVIOUS
    <2>1. /\ pass.on /\ file'.journal = pass.journal
        BY PersistedByPersist, PersistWrites
    <2>2. it \in pass.journal /\ \A i \in file.journal : i.key # it.key
        BY <2>1 DEF Added
    <2>3. ~pass.baseline /\ pass.prev = file.published
        BY <2>1, <2>2 DEF IInv, PassStartsFromFile
    <2>4. known \subseteq pass.prev  BY <2>3 DEF IInv, KnownPublished
    <2> QED  BY <2>1, <2>2, <2>4 DEF IInv, GrowthIsNew
<1> QED  BY <1>1, Invariance, PTL DEF Spec, NoRebroadcast

\* The mapped state of AtMostOnceFeed.
OnAir == {it.key : it \in file.journal}
Spent == {k \in Keys : <<"key", k>> \in file.published}

\* A step that keeps the journal's keys and the log is a stutter there.
LEMMA FeedStutters ==
    ASSUME OnAir' = OnAir, file'.published = file.published
    PROVE  UNCHANGED <<OnAir, Spent>>
BY DEF Spent

\* The journal implements AtMostOnceFeed: a key is listed only when it was
\* not in the log, and the log forgets only when the feed starts over.
THEOREM Refinement == Spec => AnnouncedAtMostOnce
<1>1. Init => Feed!Init
    BY DEF Init, NoFile, Feed!Init
<1>2. IInv /\ [Next]_vars => [Feed!Next]_<<OnAir, Spent>>
    <2> SUFFICES ASSUME IInv, [Next]_vars
                 PROVE  Feed!Next \/ UNCHANGED <<OnAir, Spent>>
        BY DEF OnAir, Spent
    <2>1. CASE Persist
        <3>1. /\ pass.on /\ pass \in Passes
              /\ file'.journal = pass.journal
              /\ file'.published = pass.prev \cup pass.publish
            BY <2>1, PersistWrites
        <3>2. Spent' \in SUBSET Keys  BY DEF Spent
        <3>3. CASE pass.baseline
            <4>1. OnAir' = {}
                BY <3>1, <3>3 DEF IInv, PassStartsFromFile, OnAir
            <4> QED  BY <3>2, <4>1 DEF Feed!Next, Feed!StartOver, OnAir, Spent
        <3>4. CASE ~pass.baseline
            <4> DEFINE new == {it.key : it \in Added}
            <4>1. pass.prev = file.published
                BY <3>1, <3>4 DEF IInv, PassStartsFromFile
            <4>2. \A it \in Added : it \in pass.journal /\ \A i \in file.journal : i.key # it.key
                BY <3>1 DEF Added
            <4>3. \A it \in Added : <<"key", it.key>> \notin file.published
                BY <3>1, <4>1, <4>2 DEF IInv, GrowthIsNew
            <4>4. \A it \in pass.journal : it.key \in Keys
                BY <3>1 DEF Passes, Items
            <4>5. new \in SUBSET (Keys \ Spent)
                BY <4>2, <4>3, <4>4 DEF Spent
            <4>6. OnAir' \in SUBSET (OnAir \cup new)
                BY <3>1 DEF OnAir, Added
            <4>7. \A it \in pass.journal : <<"key", it.key>> \in file'.published
                BY <3>1 DEF IInv, PassCovered, Log
            <4>8. new \subseteq Spent'
                BY <4>2, <4>4, <4>7 DEF Spent
            <4>9. Spent \subseteq Spent'  BY <3>1, <4>1 DEF Spent
            <4> HIDE DEF new
            <4> QED  BY <3>2, <4>5, <4>6, <4>8, <4>9
                     DEF Feed!Next, Feed!Announce, OnAir, Spent
        <3> QED  BY <3>3, <3>4
    <2>2. CASE ClockStep
        <3> DEFINE move == [n \in Ages |-> IF n > MaxAge THEN n ELSE n + 1]
        <3>1. move \in [Ages -> Ages]  BY DEF Ages
        <3>2. file' = Redate(move)  BY <2>2 DEF ClockStep
        <3> HIDE DEF move
        <3> QED  BY <3>1, <3>2, RedateKeeps, FeedStutters DEF IInv, OnAir
    <2>3. CASE ClockRollback
        <3> DEFINE move == [n \in Ages |-> IF n < 0 THEN n ELSE n - 1]
        <3>1. move \in [Ages -> Ages]  BY DEF Ages
        <3>2. file' = Redate(move)  BY <2>3 DEF ClockRollback
        <3> HIDE DEF move
        <3> QED  BY <3>1, <3>2, RedateKeeps, FeedStutters DEF IInv, OnAir
    <2>4. CASE LoseFile
        <3>1. file' = [file EXCEPT !.state = "unusable"]  BY <2>4 DEF LoseFile
        <3>2. file'.journal = file.journal /\ file'.published = file.published
            BY <3>1 DEF IInv, TypeOK
        <3> QED  BY <3>2, FeedStutters DEF OnAir
    <2>5. CASE file' = file
        BY <2>5, FeedStutters DEF OnAir
    <2>6. file' = file \/ Persist \/ ClockStep \/ ClockRollback \/ LoseFile
        BY DEF Next, Pass, World, StartBaseline, StartCarry, JournalIfNew,
               GrowKnown, GrowDisabled, GrowUnservable, GrowNew, Abandon, Edit,
               Reorder, Reconfigure, vars
    <2> QED  BY <2>1, <2>2, <2>3, <2>4, <2>5, <2>6
<1> QED  BY <1>1, <1>2, Invariance, PTL
         DEF Spec, AnnouncedAtMostOnce, Feed!Spec, OnAir, Spent

-----------------------------------------------------------------------------
(* What a pass drops, dates and records.                                   *)

\* Every signal of a log is that of a listing whose key the log holds too.
LogNamed(log) == \A s \in log : \E l \in Listings :
    /\ Keyed(l)
    /\ <<"key", KeyOf[l]>> \in log
    /\ s \in {<<"key", KeyOf[l]>>, <<ScopeOf[KeyOf[l]], HashOf[l]>>}

LogsNamed == LogNamed(file.published) /\ LogNamed(Log)

Excludes(scope, it) == {it.key, it.hash} \cap WarnedIds(Fetched(scope)) # {}

\* A pass works on what it selected when it began.
KeptIsSelected == pass.kept = Kept(pass.scope)

AgesKept == \A i \in file.journal, j \in pass.journal : i.key = j.key => j.age >= i.age

CatalogueClean == pass.scope = "catalogue" => \A it \in pass.journal : ~Excludes("catalogue", it)

WindowCarries == pass.scope = "window" /\ ~pass.baseline =>
    \A it \in file.journal :
        \/ it.age > MaxAge \/ Excludes("window", it)
        \/ \E i \in pass.journal : i.key = it.key /\ i.hash = it.hash

NewKeysListed == ~pass.baseline =>
    \A k \in Keys : LoneKey(k) /\ ScopeOf[k] \in config.enabled
                    /\ <<"key", k>> \in pass.publish \ pass.prev =>
        \E it \in pass.journal : it.key = k

\* What every step preserves of the evidence a pass acts on, beside IInv.
EvidenceInv ==
    /\ LogsNamed
    /\ pass.on => /\ pass.scope \in {"catalogue", "window"}
                  /\ KeptIsSelected /\ AgesKept /\ CatalogueClean
                  /\ WindowCarries /\ NewKeysListed

\* What a pass selects and excludes does not change while the world stands still.
LEMMA WorldStable ==
    ASSUME UNCHANGED world, NEW scope \in {"catalogue", "window"}
    PROVE  /\ Kept(scope)' = Kept(scope)
           /\ WarnedIds(Fetched(scope))' = WarnedIds(Fetched(scope))
BY DEF world, ShownHash, Kept, Fetched, Warned, WarnedIds, Excluded, SameRelease, Identities

\* A listing the policy keeps shows no identity of an excluded release: the
\* excluded ones are closed under sharing (splitCurationWarned).
LEMMA KeptUnwarned ==
    ASSUME NEW scope, NEW l \in Kept(scope)
    PROVE  {KeyOf[l], ShownHash(l)} \cap WarnedIds(Fetched(scope)) = {}
<1> DEFINE F == Fetched(scope)
<1> SUFFICES ASSUME NEW x \in {KeyOf[l], ShownHash(l)}, x \in WarnedIds(F) PROVE FALSE
    OBVIOUS
<1>1. PICK m \in Warned(F) : x \in Identities(m)  BY DEF WarnedIds
<1>2. l \in F /\ l \notin Warned(F)  BY DEF Kept
<1>3. SameRelease(m, l)  BY <1>1 DEF SameRelease, Identities
<1>4. m \in F  BY DEF Warned
<1> HIDE DEF F
<1>5. PICK S \in SUBSET F :
          /\ {n \in F : Excluded(n)} \subseteq S
          /\ \A a \in S : \A n \in F : SameRelease(a, n) => n \in S
          /\ l \notin S
    BY <1>2 DEF Warned
<1>6. m \in S  BY <1>4, <1>5 DEF Warned
<1> QED  BY <1>2, <1>3, <1>5, <1>6

\* A carried item is no younger than the stored one, and the policy keeps it.
LEMMA CarryItemEvidence ==
    ASSUME NEW it \in Items, NEW scope, NEW new \in CarryItem(it, scope)
    PROVE  new.age >= it.age /\ ~Excludes(scope, new)
<1> DEFINE dated == [it EXCEPT !.age = IF it.age < 0 THEN 0 ELSE it.age]
           L == Kept(scope)
<1>1. /\ dated \in Items /\ dated.key = it.key /\ dated.hash = it.hash
      /\ dated.age >= it.age
    BY DEF Items, Ages
<1>2. ~Retracts(it, scope) /\ new \in CarryUnderPolicy(dated, scope, L)
    BY DEF CarryItem
<1>3. new = dated \/ /\ Renderable(dated.key, L) # {}
                     /\ new = RenderJournalItem(dated.key, L, dated.age)
    BY <1>2 DEF CarryUnderPolicy, RefreshCarriedItem, CarryStoredItem
<1>4. CASE new = dated
    BY <1>1, <1>2, <1>4 DEF Retracts, Excludes
<1>5. CASE /\ Renderable(dated.key, L) # {}
           /\ new = RenderJournalItem(dated.key, L, dated.age)
    <2> DEFINE occ == CHOOSE l \in Renderable(dated.key, L) : TRUE
    <2>1. occ \in Renderable(dated.key, L)  BY <1>5
    <2>2. occ \in L /\ KeyOf[occ] = dated.key  BY <2>1 DEF Renderable
    <2>3. new = [key |-> dated.key, hash |-> ShownHash(occ), age |-> dated.age]
        BY <1>5 DEF RenderJournalItem
    <2> HIDE DEF occ, dated
    <2>4. {KeyOf[occ], ShownHash(occ)} \cap WarnedIds(Fetched(scope)) = {}
        BY <2>2, KeptUnwarned
    <2> QED  BY <1>1, <2>2, <2>3, <2>4 DEF Excludes
<1> QED  BY <1>3, <1>4, <1>5

\* A window drops an item for its age or for the window's own tags alone.
LEMMA WindowCarriesItem ==
    ASSUME NEW it \in Items
    PROVE  \/ it.age > MaxAge \/ Excludes("window", it)
           \/ \E i \in CarryItem(it, "window") : i.key = it.key /\ i.hash = it.hash
<1> DEFINE dated == [it EXCEPT !.age = IF it.age < 0 THEN 0 ELSE it.age]
<1>1. /\ dated.key = it.key /\ dated.hash = it.hash
      /\ dated.age > MaxAge => it.age > MaxAge
    BY DEF Items, Ages
<1>2. \/ dated.age > MaxAge \/ Retracts(it, "window")
      \/ CarryItem(it, "window") = {dated}
    BY DEF CarryItem, CarryUnderPolicy
<1> QED  BY <1>1, <1>2 DEF Retracts, Excludes

\* A pass begins on the evidence it fetched.
LEMMA EvidenceStart ==
    ASSUME IInv, EvidenceInv, NEW scope \in {"catalogue", "window"},
           StartBaseline(scope) \/ StartCarry(scope)
    PROVE  EvidenceInv'
<1>1. UNCHANGED <<world, file, known>> /\ ~pass.on
    BY DEF StartBaseline, StartCarry
<1>2. Kept(scope)' = Kept(scope) /\ WarnedIds(Fetched("catalogue"))' = WarnedIds(Fetched("catalogue"))
      /\ WarnedIds(Fetched("window"))' = WarnedIds(Fetched("window"))
    BY <1>1, WorldStable
<1>3. CASE StartBaseline(scope)
    <2>1. pass' = [on |-> TRUE, scope |-> scope, baseline |-> TRUE,
                   kept |-> Kept(scope), todo |-> {}, prev |-> {},
                   publish |-> BaselinePublications(Kept(scope)), journal |-> {}]
        BY <1>3 DEF StartBaseline
    <2>2. Log' = BaselinePublications(Kept(scope))  BY <2>1 DEF Log
    <2>3. LogNamed(BaselinePublications(Kept(scope)))
        <3> SUFFICES ASSUME NEW s \in BaselinePublications(Kept(scope))
                     PROVE  \E l \in Listings :
                                /\ Keyed(l)
                                /\ <<"key", KeyOf[l]>> \in BaselinePublications(Kept(scope))
                                /\ s \in {<<"key", KeyOf[l]>>, <<ScopeOf[KeyOf[l]], HashOf[l]>>}
            BY DEF LogNamed
        <3>1. PICK l \in Kept(scope) : KeyOf[l] # NoKey /\ s \in PublicationSignals(l)
            BY DEF BaselinePublications
        <3>2. Keyed(l)  BY <3>1, KeptType DEF Keyed
        <3>3. <<"key", KeyOf[l]>> \in BaselinePublications(Kept(scope))
            BY <3>1, <3>2, ListingSignalsType DEF BaselinePublications
        <3> QED  BY <3>1, <3>2, <3>3 DEF Keyed, PublicationSignals, SignalsOf, ShownHash
    <2> QED  BY <1>1, <1>2, <2>1, <2>2, <2>3
             DEF EvidenceInv, LogsNamed, LogNamed, KeptIsSelected, AgesKept, CatalogueClean,
                 WindowCarries, NewKeysListed
<1>4. CASE StartCarry(scope)
    <2> DEFINE J == CarryJournal(file.journal, scope)
    <2>1. /\ pass'.on /\ pass'.scope = scope /\ pass'.kept = Kept(scope)
          /\ pass'.prev = file.published /\ pass'.publish = {} /\ pass'.journal = J
        BY <1>4 DEF StartCarry
    <2>2. file.journal \in SUBSET Items /\ UniqueKeys(file.journal)
        BY DEF IInv, TypeOK, JournalCovered
    <2>3. \A j \in J : \E it \in file.journal :
              /\ j \in CarryItem(it, scope) /\ j.key = it.key
              /\ j.age >= it.age /\ ~Excludes(scope, j)
        BY <2>2, CarryItemFrom, CarryItemEvidence DEF CarryJournal, CarriedFrom
    <2>4. \A i \in file.journal, j \in J : i.key = j.key => j.age >= i.age
        BY <2>2, <2>3 DEF UniqueKeys
    <2>5. scope = "window" =>
              \A it \in file.journal :
                  \/ it.age > MaxAge \/ Excludes("window", it)
                  \/ \E i \in J : i.key = it.key /\ i.hash = it.hash
        BY <2>2, WindowCarriesItem DEF CarryJournal
    <2>6. Log' = file.published  BY <2>1 DEF Log
    <2> HIDE DEF J
    <2>7. AgesKept' /\ CatalogueClean' /\ WindowCarries'
        BY <1>1, <1>2, <2>1, <2>3, <2>4, <2>5
           DEF AgesKept, CatalogueClean, WindowCarries, Excludes
    <2> QED  BY <1>1, <1>2, <2>1, <2>6, <2>7
             DEF EvidenceInv, LogsNamed, LogNamed, KeptIsSelected, NewKeysListed
<1> QED  BY <1>3, <1>4

\* Growth adds items of new keys, which a catalogue pass renders from listings
\* the policy keeps, and records a key of its own, or one the log has.
LEMMA EvidenceGrows ==
    ASSUME IInv, EvidenceInv, NEW l \in Listings, JournalIfNew(l)
    PROVE  EvidenceInv'
<1>1. /\ pass \in Passes /\ pass.on /\ l \in pass.todo /\ UNCHANGED <<world, file, known>>
    BY DEF JournalIfNew, GrowKnown, GrowDisabled, GrowUnservable, GrowNew, Growing,
           IInv, TypeOK, Idle
<1>2. ~pass.baseline /\ pass.prev = file.published /\ Keyed(l)
    BY <1>1 DEF IInv, PassStartsFromFile, TodoKeyed, Keyed
<1>3. /\ \A scope \in {"catalogue", "window"} : Kept(scope)' = Kept(scope)
      /\ WarnedIds(Fetched("catalogue"))' = WarnedIds(Fetched("catalogue"))
      /\ WarnedIds(Fetched("window"))' = WarnedIds(Fetched("window"))
      /\ config' = config
    BY <1>1, WorldStable DEF world
<1>4. /\ pass' \in Passes /\ pass'.on /\ pass'.scope = pass.scope
      /\ pass'.baseline = pass.baseline /\ pass'.kept = pass.kept /\ pass'.prev = pass.prev
    <2>1. pass' \in Passes
        BY <1>1, JournalIfNewStep DEF IInv, TypeOK, Idle, JournalIfNew, GrowKnown, GrowDisabled,
           GrowUnservable, GrowNew, Passes
    <2> QED  BY <1>1, <2>1 DEF JournalIfNew, GrowKnown, GrowDisabled, GrowUnservable, GrowNew, Passes
<1>5. \/ pass'.publish = pass.publish \/ pass'.publish = Recorded(l)
    BY <1>1 DEF JournalIfNew, GrowKnown, GrowDisabled, GrowUnservable, GrowNew, Passes
<1>6. LogsNamed'
    <2>1. LogNamed(Log) /\ Log = pass.prev \cup pass.publish  BY <1>1 DEF EvidenceInv, LogsNamed, Log
    <2>2. /\ Log' = Log \/ Log' = Log \cup PublicationSignals(l)
          /\ Log \subseteq Log'
        BY <1>4, <1>5, <2>1 DEF Log, Recorded
    <2>3. <<"key", KeyOf[l]>> \in PublicationSignals(l)  BY <1>2, ListingSignalsType
    <2>4. \A s \in PublicationSignals(l) :
              s \in {<<"key", KeyOf[l]>>, <<ScopeOf[KeyOf[l]], HashOf[l]>>}
        BY DEF PublicationSignals, SignalsOf, ShownHash
    <2>5. LogNamed(Log')
        BY <1>2, <2>1, <2>2, <2>3, <2>4 DEF LogNamed
    <2> QED  BY <1>1, <2>5 DEF EvidenceInv, LogsNamed, LogNamed
<1>7. ASSUME NEW k \in Keys, LoneKey(k), ScopeOf[k] \in config.enabled,
             <<"key", k>> \in pass'.publish \ pass.prev
      PROVE  \E it \in pass'.journal : it.key = k
    <2>1. pass.journal \subseteq pass'.journal
        BY <1>1 DEF JournalIfNew, GrowKnown, GrowDisabled, GrowUnservable, GrowNew, Passes
    <2>2. CASE <<"key", k>> \in pass.publish
        BY <1>1, <1>2, <1>7, <2>1, <2>2 DEF EvidenceInv, NewKeysListed
    <2>3. CASE <<"key", k>> \notin pass.publish
        <3>1. <<"key", k>> \in PublicationSignals(l)
            BY <1>5, <1>7, <2>3 DEF Recorded
        <3>2. KeyOf[l] = k
            BY <1>2, <3>1 DEF PublicationSignals, SignalsOf, Keyed, Scopes
        <3>3. ~AlreadyPublished(l)
            <4> SUFFICES ASSUME NEW s \in PublicationSignals(l), s \in pass.prev \cup pass.publish
                         PROVE  FALSE
                BY DEF AlreadyPublished
            <4>1. s = <<ScopeOf[k], HashOf[l]>> /\ ScopeOf[k] # "key"
                BY <1>7, <2>3, <3>2 DEF PublicationSignals, SignalsOf, ShownHash, Scopes
            <4>2. PICK m \in Listings :
                      /\ Keyed(m) /\ <<"key", KeyOf[m]>> \in pass.prev \cup pass.publish
                      /\ s \in {<<"key", KeyOf[m]>>, <<ScopeOf[KeyOf[m]], HashOf[m]>>}
                BY <1>1 DEF EvidenceInv, LogsNamed, LogNamed, Log
            <4>3. ScopeOf[KeyOf[m]] = ScopeOf[k] /\ HashOf[m] = HashOf[l]
                BY <4>1, <4>2
            <4>4. KeyOf[m] = k
                BY <1>7, <3>2, <4>2, <4>3 DEF LoneKey, Keyed
            <4> QED  BY <1>7, <2>3, <4>2, <4>4
        <3>4. Enabled(l)  BY <1>7, <3>2 DEF Enabled
        <3>5. pass'.publish # pass.publish  BY <1>7, <2>3
        <3>6. GrowNew(l)
            BY <1>1, <3>3, <3>4, <3>5 DEF JournalIfNew, GrowKnown, GrowDisabled, GrowUnservable, Passes
        <3>7. RenderJournalItem(KeyOf[l], pass.kept, 0) \in pass'.journal
            BY <1>1, <3>6 DEF GrowNew, Passes
        <3> QED  BY <3>2, <3>7 DEF RenderJournalItem
    <2> QED  BY <2>2, <2>3
<1>8. NewKeysListed'  BY <1>3, <1>4, <1>7 DEF NewKeysListed, LoneKey
<1>9. CASE pass'.journal = pass.journal
    BY <1>1, <1>3, <1>4, <1>6, <1>8, <1>9
       DEF EvidenceInv, KeptIsSelected, AgesKept, CatalogueClean, WindowCarries, Excludes
<1>10. CASE pass'.journal # pass.journal
    <2> DEFINE new == RenderJournalItem(KeyOf[l], pass.kept, 0)
               occ == CHOOSE m \in Renderable(KeyOf[l], pass.kept) : TRUE
    <2>1. GrowNew(l)
        BY <1>1, <1>10 DEF JournalIfNew, GrowKnown, GrowDisabled, GrowUnservable, Passes
    <2>2. pass'.journal = pass.journal \cup {new} /\ ~AlreadyPublished(l)
        BY <1>1, <2>1 DEF GrowNew, Passes
    <2>3. occ \in pass.kept /\ KeyOf[occ] = KeyOf[l]
        BY <2>1 DEF GrowNew, Renderable
    <2>4. new.key = KeyOf[l] /\ new.hash = ShownHash(occ)
        BY DEF RenderJournalItem
    <2> HIDE DEF new, occ
    <2>5. \A i \in file.journal : i.key # new.key
        <3>1. <<"key", KeyOf[l]>> \notin file.published
            BY <1>2, <2>2, ListingSignalsType DEF AlreadyPublished
        <3>2. \A i \in file.journal : <<"key", i.key>> \in file.published
            BY ItemSignalsType DEF IInv, TypeOK, JournalCovered
        <3> QED  BY <2>4, <3>1, <3>2
    <2>6. pass.scope = "catalogue" => ~Excludes("catalogue", new)
        BY <1>1, <2>3, <2>4, KeptUnwarned DEF EvidenceInv, KeptIsSelected, Excludes
    <2> QED  BY <1>1, <1>3, <1>4, <1>6, <1>8, <2>2, <2>5, <2>6
             DEF EvidenceInv, KeptIsSelected, AgesKept, CatalogueClean, WindowCarries, Excludes
<1> QED  BY <1>9, <1>10

\* The end of a pass and what happens around it.
LEMMA EvidenceElsewhere ==
    ASSUME IInv, EvidenceInv, Persist \/ Abandon \/ World \/ UNCHANGED vars
    PROVE  EvidenceInv'
<1>1. LogNamed({})  BY DEF LogNamed
<1>2. CASE Persist
    <2>1. /\ pass.on /\ pass' = Idle /\ file'.published = pass.prev \cup pass.publish
        BY <1>2, PersistWrites
    <2>2. LogNamed(file'.published) /\ Log' = {} /\ ~pass'.on
        BY <2>1 DEF EvidenceInv, LogsNamed, Log, Idle
    <2> QED  BY <1>1, <2>2 DEF EvidenceInv, LogsNamed, LogNamed
<1>3. CASE Abandon
    <2>1. pass' = Idle /\ ~pass'.on /\ file' = file /\ Log' = {}
        BY <1>3 DEF Abandon, Release, Idle, Log
    <2> QED  BY <1>1, <2>1 DEF EvidenceInv, LogsNamed, LogNamed
<1>4. CASE ~pass.on /\ World
    <2>1. file'.published = file.published
        <3>1. CASE ClockStep
            <4> DEFINE move == [n \in Ages |-> IF n > MaxAge THEN n ELSE n + 1]
            <4>1. move \in [Ages -> Ages]  BY DEF Ages
            <4>2. file' = Redate(move)  BY <3>1 DEF ClockStep
            <4> HIDE DEF move
            <4> QED  BY <4>1, <4>2, RedateKeeps DEF IInv
        <3>2. CASE ClockRollback
            <4> DEFINE move == [n \in Ages |-> IF n < 0 THEN n ELSE n - 1]
            <4>1. move \in [Ages -> Ages]  BY DEF Ages
            <4>2. file' = Redate(move)  BY <3>2 DEF ClockRollback
            <4> HIDE DEF move
            <4> QED  BY <4>1, <4>2, RedateKeeps DEF IInv
        <3>3. CASE LoseFile
            BY <3>3 DEF LoseFile, IInv, TypeOK
        <3> QED  BY <1>4, <3>1, <3>2, <3>3 DEF World, Edit, Reorder, Reconfigure
    <2>2. pass' = pass
        BY <1>4 DEF World, Edit, Reorder, Reconfigure, ClockStep, ClockRollback, LoseFile
    <2>3. Log' = {}  BY <1>4, <2>2 DEF Log
    <2> QED  BY <1>1, <1>4, <2>1, <2>2, <2>3 DEF EvidenceInv, LogsNamed, LogNamed
<1>5. CASE (pass.on /\ World) \/ UNCHANGED vars
    <2>1. /\ UNCHANGED <<world, pass>> /\ file'.journal = file.journal
          /\ file'.published = file.published
        BY <1>5 DEF World, Edit, Reorder, Reconfigure, ClockStep, ClockRollback, LoseFile,
                    vars, world, IInv, TypeOK
    <2>2. /\ \A scope \in {"catalogue", "window"} : Kept(scope)' = Kept(scope)
          /\ WarnedIds(Fetched("catalogue"))' = WarnedIds(Fetched("catalogue"))
          /\ WarnedIds(Fetched("window"))' = WarnedIds(Fetched("window"))
          /\ config' = config
        BY <2>1, WorldStable DEF world
    <2>3. Log' = Log  BY <2>1 DEF Log
    <2> QED  BY <2>1, <2>2, <2>3
             DEF EvidenceInv, LogsNamed, LogNamed, KeptIsSelected, AgesKept, CatalogueClean,
                 WindowCarries, NewKeysListed, Excludes, LoneKey
<1> QED  BY <1>2, <1>3, <1>4, <1>5

\* In every state a pass acts on the evidence it fetched, and the log can be
\* traced to listings (JournalWriter, publicationSignals).
THEOREM EvidenceHeld == Spec => [](IInv /\ EvidenceInv)
<1>1. Init => EvidenceInv
    BY DEF Init, NoFile, Idle, EvidenceInv, LogsNamed, LogNamed, Log
<1>2. IInv /\ EvidenceInv /\ [Next]_vars => EvidenceInv'
    BY EvidenceStart, EvidenceGrows, EvidenceElsewhere DEF Next, Pass
<1> QED  BY <1>1, <1>2, Invariance, PTL DEF Spec

\* A pass ends by writing what it carried and grew.
LEMMA PersistedEvidence ==
    ASSUME IInv, EvidenceInv, [Next]_vars, Persisted
    PROVE  /\ file'.journal = pass.journal
           /\ file'.published = pass.prev \cup pass.publish
           /\ pass.on /\ AgesKept /\ CatalogueClean /\ WindowCarries /\ NewKeysListed
           /\ ~pass.baseline => pass.prev = file.published
BY PersistedByPersist, PersistWrites DEF EvidenceInv, IInv, PassStartsFromFile

\* No pass makes an item younger, whatever the clock and the file go through,
\* so a release is listed for a bounded time (refreshCarriedItem).
THEOREM NeverYounger == Spec => NeverRedated
<1>1. IInv /\ EvidenceInv /\ [Next]_vars =>
          [Persisted => \A i \in file.journal, j \in file'.journal :
                            i.key = j.key => j.age >= i.age]_vars
    <2> SUFFICES ASSUME IInv, EvidenceInv, [Next]_vars, Persisted
                 PROVE  \A i \in file.journal, j \in file'.journal : i.key = j.key => j.age >= i.age
        OBVIOUS
    <2> QED  BY PersistedEvidence DEF AgesKept
<1> QED  BY <1>1, EvidenceHeld, PTL DEF Spec, NeverRedated

\* What a pass drops is what its evidence excludes, for every site, policy and
\* window (splitCurationWarned, warnedSet.retracts, carryUnevaluatedItem).
THEOREM DropsFollowEvidence == Spec => DropsOnEvidence
<1>1. IInv /\ EvidenceInv /\ [Next]_vars =>
          [Persisted =>
            /\ pass.scope = "catalogue" =>
                   \A it \in file'.journal :
                       {it.key, it.hash} \cap WarnedIds(Fetched("catalogue")) = {}
            /\ pass.scope = "window" /\ ~pass.baseline =>
                   \A it \in file.journal :
                       \/ it.age > MaxAge
                       \/ {it.key, it.hash} \cap WarnedIds(Fetched("window")) # {}
                       \/ \E i \in file'.journal : i.key = it.key /\ i.hash = it.hash]_vars
    <2> SUFFICES ASSUME IInv, EvidenceInv, [Next]_vars, Persisted
                 PROVE  /\ pass.scope = "catalogue" =>
                              \A it \in file'.journal : ~Excludes("catalogue", it)
                        /\ pass.scope = "window" /\ ~pass.baseline =>
                              \A it \in file.journal :
                                  \/ it.age > MaxAge \/ Excludes("window", it)
                                  \/ \E i \in file'.journal : i.key = it.key /\ i.hash = it.hash
        BY DEF Excludes
    <2> QED  BY PersistedEvidence DEF CatalogueClean, WindowCarries
<1> QED  BY <1>1, EvidenceHeld, PTL DEF Spec, DropsOnEvidence

\* A release nothing could render stays new for the pass that can, unless
\* another key carries the same bytes (journalIfNew, journalLink).
THEOREM UnservedIsNew == Spec => UnservedStaysNew
<1>1. IInv /\ EvidenceInv /\ [Next]_vars =>
          [Persisted /\ ~pass.baseline =>
            \A k \in Keys : LoneKey(k) /\ ScopeOf[k] \in config.enabled
                            /\ <<"key", k>> \in file'.published \ file.published =>
                \E it \in file'.journal : it.key = k]_vars
    <2> SUFFICES ASSUME IInv, EvidenceInv, [Next]_vars, Persisted, ~pass.baseline,
                        NEW k \in Keys, LoneKey(k), ScopeOf[k] \in config.enabled,
                        <<"key", k>> \in file'.published \ file.published
                 PROVE  \E it \in file'.journal : it.key = k
        OBVIOUS
    <2> QED  BY PersistedEvidence DEF NewKeysListed
<1> QED  BY <1>1, EvidenceHeld, PTL DEF Spec, UnservedStaysNew
=============================================================================
