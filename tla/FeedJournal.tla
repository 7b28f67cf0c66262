----------------------------- MODULE FeedJournal ----------------------------
(***************************************************************************)
(* The feed pass (internal/indexer: FeedWriter.run and the journal it      *)
(* carries and grows), as the reconcile runs it over the whole catalogue   *)
(* and the tick over the recently changed entries.  The daemon and a       *)
(* `poll` beside it write one file; the cycle lock serialises their        *)
(* passes, so at most one pass is on, of either process.                   *)
(*                                                                         *)
(* A pass works on the entries it fetched, so an edit of the site during a *)
(* pass cannot be told from one after it: edits, clock steps and           *)
(* configuration changes wait for the pass's end.  What happens to the file,  *)
(* a failed write and the death of a writer may land between any two steps *)
(* of a pass.                                                              *)
(***************************************************************************)
EXTENDS Integers, FiniteSets

CONSTANTS
    Listings,       \* the occurrences of a torrent in an entry
    EntryOf,        \* the SeaDex entry each belongs to
    KeyOf,          \* its journal key (tracker and torrent id), or NoKey
    HashOf,         \* its info hash, or NoHash
    ScopeOf,        \* the tracker of each key
    FilmKeys,       \* the keys whose title is a film's
    NoKey, NoHash, AB,
    MayBe,          \* the statuses each listing takes
    Configs,        \* the configurations a process may start with
    MaxAge,         \* feedJournalMaxAge, in clock steps
    MaxLog          \* the publication log's cap

Keys   == DOMAIN ScopeOf
Scopes == {ScopeOf[k] : k \in Keys}
Hashes == {HashOf[l] : l \in Listings} \ {NoHash}

\* A listing is off the site, listed, listed with its hash redacted, listed
\* under a tag a policy may exclude, or listed so that it cannot be rendered.
Statuses == {"unlisted", "plain", "redacted", "tagged", "bare"}

Ages    == -1 .. MaxAge + 1
Items   == [key : Keys, hash : Hashes \cup {NoHash}, age : Ages]
Signals == {<<"key", k>> : k \in Keys} \cup (Scopes \X Hashes)

ASSUME ConstantsAssumption ==
    /\ KeyOf \in [Listings -> Keys \cup {NoKey}]
    /\ NoKey \notin Keys
    /\ NoHash \notin Keys
    /\ "key" \notin Scopes
    /\ MaxAge \in Nat
    /\ MaxLog \in Nat
    /\ MayBe \in [Listings -> SUBSET Statuses]

VARIABLES
    site,       \* what SeaDex says of each listing
    touched,    \* the entries updated within the tick's window
    reordered,  \* the keys whose series now uses a non-aired episode order
    config,     \* the configuration the processes run with
    file,       \* feed.json: its state and the last content written
    pass,       \* the pass in progress, if one holds the cycle lock
    known       \* history: the signals of everything that is no news any more

world == <<site, touched, reordered, config>>
vars  == <<site, touched, reordered, config, file, pass, known>>
-----------------------------------------------------------------------------
(* What a pass makes of the entries it fetched.                            *)

ShownHash(l) == IF site[l] = "redacted" THEN NoHash ELSE HashOf[l]

\* The window carries whole entries, but only those touched.
Fetched(scope) ==
    {l \in Listings : /\ site[l] # "unlisted"
                      /\ scope = "window" => EntryOf[l] \in touched}

\* Across trackers the bytes are the identity: the hash is not scoped.
Identities(l) == {KeyOf[l], ShownHash(l)} \ {NoKey, NoHash}

SameRelease(l, m) == Identities(l) \cap Identities(m) # {}

Excluded(l) == config.policy /\ site[l] = "tagged"

\* The excluded listings of E and all that share a release with one of them,
\* however long the chain: the least set closed under sharing.
Warned(E) ==
    {l \in E : \A S \in SUBSET E :
        (/\ {m \in E : Excluded(m)} \subseteq S
         /\ \A m \in S : \A n \in E : SameRelease(m, n) => n \in S) => l \in S}

WarnedIds(E) == UNION {Identities(l) : l \in Warned(E)}

Kept(scope) == Fetched(scope) \ Warned(Fetched(scope))

\* The log's identity forms, both tied to the tracker.
SignalsOf(k, h) ==
    {<<"key", k>>} \cup (IF h = NoHash THEN {} ELSE {<<ScopeOf[k], h>>})

PublicationSignals(l) == SignalsOf(KeyOf[l], ShownHash(l))
ItemSignals(it) == SignalsOf(it.key, it.hash)

BaselinePublications(L) ==
    UNION {PublicationSignals(l) : l \in {m \in L : KeyOf[m] # NoKey}}

\* A listing renders unless its data is unusable or, on AnimeBytes, there is
\* no passkey to build its link from.
JournalLink(l) == ScopeOf[KeyOf[l]] = AB => config.passkey

Renderable(k, L) ==
    {l \in L : KeyOf[l] = k /\ site[l] # "bare" /\ JournalLink(l)}

\* The first renderable occurrence of a fixed order: a choice that depends
\* on the set of occurrences alone.
RenderJournalItem(k, L, age) ==
    [key |-> k, hash |-> ShownHash(CHOOSE l \in Renderable(k, L) : TRUE), age |-> age]
-----------------------------------------------------------------------------
(* Carrying the previous journal.  Each returns no item or one.            *)

\* A stored render cannot be redone, so one that may name a season of an
\* order its series no longer uses goes.
CarryStoredItem(it) ==
    IF it.key \in reordered \ FilmKeys THEN {} ELSE {it}

\* Mutant: a refreshed item is dated again.
RefreshRedated(it, L) ==
    IF Renderable(it.key, L) = {} THEN CarryStoredItem(it)
    ELSE {RenderJournalItem(it.key, L, 0)}

RefreshCarriedItem(it, L) ==
    IF Renderable(it.key, L) = {} THEN CarryStoredItem(it)
    ELSE {RenderJournalItem(it.key, L, it.age)}

\* Only the catalogue has the standing to refresh or to conclude anything
\* from absence; a window carries the stored item verbatim.
CarryUnderPolicy(it, scope, L) ==
    IF scope = "window" THEN {it}
    ELSE IF \E l \in L : KeyOf[l] = it.key THEN RefreshCarriedItem(it, L)
    ELSE CarryStoredItem(it)

\* Mutant: retraction looks at the key alone.
RetractsByKey(it, scope) == it.key \in WarnedIds(Fetched(scope))

Retracts(it, scope) ==
    WarnedIds(Fetched(scope)) \cap {it.key, it.hash} # {}

\* An item dated in the future is dated now, an old one is pruned.
CarryItem(it, scope) ==
    LET dated == [it EXCEPT !.age = IF it.age < 0 THEN 0 ELSE it.age]
    IN  IF dated.age > MaxAge \/ Retracts(it, scope) THEN {}
        ELSE CarryUnderPolicy(dated, scope, Kept(scope))

CarryJournal(journal, scope) == UNION {CarryItem(it, scope) : it \in journal}
-----------------------------------------------------------------------------
(* The pass.                                                               *)

Idle == [on |-> FALSE]

Passes == [on : {TRUE}, scope : {"catalogue", "window"}, baseline : BOOLEAN,
           kept : SUBSET Listings, todo : SUBSET Listings,
           prev : SUBSET Signals, publish : SUBSET Signals,
           journal : SUBSET Items]

WithinLimits(log) == Cardinality(log) <= MaxLog

Usable == file.state = "ok" /\ WithinLimits(file.published)

\* Mutant: any pass re-baselines.
BaselineAtAnyScope(scope) ==
    /\ ~pass.on
    /\ ~Usable
    /\ scope = "window" => touched # {}
    /\ pass' = [on |-> TRUE, scope |-> scope, baseline |-> TRUE,
                kept |-> Kept(scope), todo |-> {}, prev |-> {},
                publish |-> BaselinePublications(Kept(scope)), journal |-> {}]
    /\ UNCHANGED <<world, file, known>>

\* Without a usable file the whole catalogue is forfeited and the journal
\* starts empty.  A window pass returns here without writing, and so does
\* either after a read that failed for another reason: stuttering steps.
StartBaseline(scope) ==
    /\ ~pass.on
    /\ ~Usable
    /\ scope = "catalogue"
    /\ pass' = [on |-> TRUE, scope |-> scope, baseline |-> TRUE,
                kept |-> Kept(scope), todo |-> {}, prev |-> {},
                publish |-> BaselinePublications(Kept(scope)), journal |-> {}]
    /\ UNCHANGED <<world, file, known>>

\* Otherwise the journal is carried and every kept listing is up for growth.
\* The tick runs no pass over an empty window.
StartCarry(scope) ==
    /\ ~pass.on
    /\ Usable
    /\ scope = "window" => touched # {}
    /\ pass' = [on |-> TRUE, scope |-> scope, baseline |-> FALSE,
                kept |-> Kept(scope),
                todo |-> {l \in Kept(scope) : KeyOf[l] # NoKey},
                prev |-> file.published, publish |-> {},
                journal |-> CarryJournal(file.journal, scope)]
    /\ UNCHANGED <<world, file, known>>

AlreadyPublished(l) ==
    PublicationSignals(l) \cap (pass.prev \cup pass.publish) # {}

Recorded(l) == pass.publish \cup PublicationSignals(l)

Enabled(l) == ScopeOf[KeyOf[l]] \in config.enabled

Growing(l) == pass.on /\ l \in pass.todo

\* Already served: every identity it has now is recorded with it.
GrowKnown(l) ==
    /\ Growing(l)
    /\ AlreadyPublished(l)
    /\ pass' = [pass EXCEPT !.todo = @ \ {l}, !.publish = Recorded(l)]
    /\ UNCHANGED <<world, file, known>>

\* A disabled tracker forfeits its listings as they are seen.
GrowDisabled(l) ==
    /\ Growing(l)
    /\ ~AlreadyPublished(l)
    /\ ~Enabled(l)
    /\ pass' = [pass EXCEPT !.todo = @ \ {l}, !.publish = Recorded(l)]
    /\ UNCHANGED <<world, file, known>>

\* Mutant: recorded before the render is known to succeed.
GrowUnservableRecorded(l) ==
    /\ Growing(l)
    /\ ~AlreadyPublished(l)
    /\ Enabled(l)
    /\ Renderable(KeyOf[l], pass.kept) = {}
    /\ pass' = [pass EXCEPT !.todo = @ \ {l}, !.publish = Recorded(l)]
    /\ UNCHANGED <<world, file, known>>

\* What cannot be served is not recorded either: it stays new.
GrowUnservable(l) ==
    /\ Growing(l)
    /\ ~AlreadyPublished(l)
    /\ Enabled(l)
    /\ Renderable(KeyOf[l], pass.kept) = {}
    /\ pass' = [pass EXCEPT !.todo = @ \ {l}]
    /\ UNCHANGED <<world, file, known>>

\* New and servable: an item is journaled, the listing recorded.
GrowNew(l) ==
    /\ Growing(l)
    /\ ~AlreadyPublished(l)
    /\ Enabled(l)
    /\ Renderable(KeyOf[l], pass.kept) # {}
    /\ pass' = [pass EXCEPT
           !.todo = @ \ {l},
           !.publish = Recorded(l),
           !.journal = @ \cup {RenderJournalItem(KeyOf[l], pass.kept, 0)}]
    /\ UNCHANGED <<world, file, known>>

JournalIfNew(l) ==
    GrowKnown(l) \/ GrowDisabled(l) \/ GrowUnservable(l) \/ GrowNew(l)

\* Mutant: the log is replaced by what this pass recorded.
AppendLast(prev, added) == added

\* The log is append-only.
AppendPublished(prev, added) == prev \cup added

\* What the release feed must not announce later: all it lists now, all a
\* disabled tracker offered, all a baseline found.
News ==
    LET forfeited == IF pass.baseline THEN Kept("catalogue")
                     ELSE {l \in pass.kept : KeyOf[l] # NoKey /\ ~Enabled(l)}
    IN  BaselinePublications(forfeited) \cup UNION {ItemSignals(it) : it \in pass.journal}

Release == pass' = Idle

\* Mutant: the caps are not looked at.
PersistUncapped ==
    /\ pass.on
    /\ pass.todo = {}
    /\ file' = [state |-> "ok", journal |-> pass.journal,
                published |-> AppendPublished(pass.prev, pass.publish)]
    /\ known' = (IF pass.baseline THEN {} ELSE known) \cup News
    /\ Release
    /\ UNCHANGED world

\* The whole snapshot replaces the file, if its log keeps within the caps.
Persist ==
    /\ pass.on
    /\ pass.todo = {}
    /\ WithinLimits(AppendPublished(pass.prev, pass.publish))
    /\ file' = [state |-> "ok", journal |-> pass.journal,
                published |-> AppendPublished(pass.prev, pass.publish)]
    /\ known' = (IF pass.baseline THEN {} ELSE known) \cup News
    /\ Release
    /\ UNCHANGED world

\* The pass ends with the file as it was: the log is over its caps, the
\* write fails, or the writer dies and the kernel drops its lock.
Abandon ==
    /\ pass.on
    /\ Release
    /\ UNCHANGED <<world, file, known>>
-----------------------------------------------------------------------------
(* The environment.                                                        *)

\* A curator edits an entry, perhaps without changing this listing.
Edit(l, s) ==
    /\ ~pass.on
    /\ s \in MayBe[l]
    /\ site' = [site EXCEPT ![l] = s]
    /\ touched' = touched \cup {EntryOf[l]}
    /\ UNCHANGED <<reordered, config, file, pass, known>>

\* The file with the age of each item moved; ages stop at both ends.
Redate(move) ==
    [file EXCEPT !.journal = {[it EXCEPT !.age = move[it.age]] : it \in @}]

\* Time passes; some entries leave the window.
ClockStep ==
    /\ ~pass.on
    /\ touched' \in SUBSET touched
    /\ file' = Redate([n \in Ages |-> IF n > MaxAge THEN n ELSE n + 1])
    /\ UNCHANGED <<site, reordered, config, pass, known>>

\* The clock is set back: what was journaled last is now in the future.
ClockRollback ==
    /\ ~pass.on
    /\ file' = Redate([n \in Ages |-> IF n < 0 THEN n ELSE n - 1])
    /\ UNCHANGED <<world, pass, known>>

\* A series moves to, or back from, a non-aired episode order.
Reorder(k) ==
    /\ ~pass.on
    /\ k \notin FilmKeys
    /\ reordered' = IF k \in reordered THEN reordered \ {k} ELSE reordered \cup {k}
    /\ UNCHANGED <<site, touched, config, file, pass, known>>

\* The processes are restarted with another configuration.
Reconfigure ==
    /\ ~pass.on
    /\ config' \in Configs
    /\ UNCHANGED <<site, touched, reordered, file, pass, known>>

\* The operator removes or damages the file, or an older image replaces it.
\* The content stays behind as history.
LoseFile ==
    /\ file.state = "ok"
    /\ file' = [file EXCEPT !.state = "unusable"]
    /\ UNCHANGED <<world, pass, known>>
-----------------------------------------------------------------------------
NoFile == [state |-> "absent", published |-> {}, journal |-> {}]

Init ==
    /\ site \in {s \in [Listings -> Statuses] : \A l \in Listings : s[l] \in MayBe[l]}
    /\ touched = {}
    /\ reordered = {}
    /\ config \in Configs
    /\ file = NoFile
    /\ pass = Idle
    /\ known = {}

Pass ==
    \/ \E scope \in {"catalogue", "window"} : StartBaseline(scope) \/ StartCarry(scope)
    \/ \E l \in Listings : JournalIfNew(l)
    \/ Persist
    \/ Abandon

World ==
    \/ \E l \in Listings, s \in Statuses : Edit(l, s)
    \/ \E k \in Keys : Reorder(k)
    \/ ClockStep \/ ClockRollback \/ Reconfigure \/ LoseFile

Next == Pass \/ World

Spec == Init /\ [][Next]_vars
-----------------------------------------------------------------------------
TypeOK ==
    /\ site \in [Listings -> Statuses]
    /\ touched \subseteq {EntryOf[l] : l \in Listings}
    /\ reordered \subseteq Keys
    /\ config \in Configs
    /\ file \in [state : {"absent", "ok", "unusable"}, published : SUBSET Signals,
                 journal : SUBSET Items]
    /\ pass \in Passes \cup {Idle}
    /\ known \subseteq Signals

Log == IF pass.on THEN pass.prev \cup pass.publish ELSE {}

\* A pass starts from the log of the last write, or from nothing.
PassStartsFromFile ==
    pass.on => \/ /\ pass.baseline
                  /\ pass.journal = {} /\ pass.todo = {}
                  /\ BaselinePublications(Kept("catalogue")) \subseteq pass.publish
               \/ ~pass.baseline /\ pass.prev = file.published

UniqueKeys(journal) == \A i, j \in journal : i.key = j.key => i = j

JournalCovered ==
    /\ UniqueKeys(file.journal)
    /\ \A it \in file.journal : ItemSignals(it) \subseteq file.published

\* In a pass, an item's hash may be newer than the log, as long as a listing
\* that shows it is still to be recorded.
PassCovered ==
    pass.on =>
        /\ UniqueKeys(pass.journal)
        /\ \A it \in pass.journal :
              /\ <<"key", it.key>> \in Log
              /\ \/ ItemSignals(it) \subseteq Log
                 \/ \E l \in pass.todo : ItemSignals(it) = PublicationSignals(l)

\* A listing the pass is done with is recorded, unless nothing can serve it.
DoneRecorded ==
    pass.on /\ ~pass.baseline =>
        \A l \in pass.kept \ pass.todo : KeyOf[l] # NoKey =>
            \/ PublicationSignals(l) \subseteq Log
            \/ Enabled(l) /\ Renderable(KeyOf[l], pass.kept) = {}

\* An item is carried, or its key is new to the log, and its bytes are unless
\* another listing of the key does not show them.
GrowthIsNew ==
    pass.on =>
        \A it \in pass.journal :
            \/ \E i \in file.journal : i.key = it.key
            \/ /\ <<"key", it.key>> \notin pass.prev
               /\ \/ ItemSignals(it) \cap pass.prev = {}
                  \/ \E l \in pass.kept : KeyOf[l] = it.key /\ ShownHash(l) # it.hash

TodoKeyed ==
    pass.on => /\ pass.todo \subseteq pass.kept
               /\ \A l \in pass.todo : KeyOf[l] # NoKey

KnownPublished == known \subseteq file.published

LogPersistable == file.state = "ok" => WithinLimits(file.published)

IInv ==
    /\ TypeOK
    /\ PassStartsFromFile
    /\ JournalCovered
    /\ PassCovered
    /\ DoneRecorded
    /\ TodoKeyed
    /\ GrowthIsNew
    /\ KnownPublished
    /\ LogPersistable
-----------------------------------------------------------------------------
Persisted == pass.on /\ ~pass'.on /\ file' # file
Added == {it \in file'.journal : \A i \in file.journal : i.key # it.key}

\* No release is announced twice, nor one its baseline or a disabled tracker
\* had forfeited; under another id the same bytes are announced again only if
\* another listing of the new id hides their hash (journalIfNew,
\* alreadyPublished, baselinePublications).
NoRebroadcast ==
    [][Persisted => \A it \in Added :
        /\ <<"key", it.key>> \notin known
        /\ \/ ItemSignals(it) \cap known = {}
           \/ \E l \in pass.kept : KeyOf[l] = it.key /\ ShownHash(l) # it.hash]_vars

\* A release nothing could render stays new for the pass that can: a key
\* enters the log of an enabled tracker only with its item, unless another
\* key carries the same bytes (journalIfNew, journalLink).
LoneKey(k) ==
    \A l, m \in Listings : KeyOf[l] = k /\ HashOf[l] = HashOf[m] /\ KeyOf[m] # NoKey =>
        KeyOf[m] = k \/ ScopeOf[KeyOf[m]] # ScopeOf[k]

UnservedStaysNew ==
    [][Persisted /\ ~pass.baseline =>
        \A k \in Keys : LoneKey(k) /\ ScopeOf[k] \in config.enabled
                        /\ <<"key", k>> \in file'.published \ file.published =>
            \E it \in file'.journal : it.key = k]_vars

\* What a pass drops is what its evidence excludes.  After a catalogue pass the
\* feed lists nothing whose bytes the tag policy excludes anywhere on the site
\* (splitCurationWarned, warnedSet.retracts).  Absence from a window proves
\* nothing: a window pass drops only what is too old or excluded by the window's
\* own tags (carryUnevaluatedItem).
DropsOnEvidence ==
    [][Persisted =>
        /\ pass.scope = "catalogue" =>
               \A it \in file'.journal :
                   {it.key, it.hash} \cap WarnedIds(Fetched("catalogue")) = {}
        /\ pass.scope = "window" /\ ~pass.baseline =>
               \A it \in file.journal :
                   \/ it.age > MaxAge
                   \/ {it.key, it.hash} \cap WarnedIds(Fetched("window")) # {}
                   \/ \E i \in file'.journal : i.key = it.key /\ i.hash = it.hash]_vars

\* A release is listed for a bounded time: no pass makes an item younger, so
\* a refresh cannot keep it past feedJournalMaxAge (refreshCarriedItem).
NeverRedated ==
    [][Persisted => \A i \in file.journal, j \in file'.journal :
                        i.key = j.key => j.age >= i.age]_vars

\* The tick announces no release whose bytes the tag policy keeps from search
\* ("RSS must never keep serving bytes search suppresses").
WindowSuppresses ==
    [][Persisted /\ pass.scope = "window" =>
        \A it \in Added : {it.key, it.hash} \cap WarnedIds(Fetched("catalogue")) = {}]_vars

\* The journal keeps the promise of AtMostOnceFeed.
Feed == INSTANCE AtMostOnceFeed WITH
    Releases <- Keys,
    onAir    <- {it.key : it \in file.journal},
    spent    <- {k \in Keys : <<"key", k>> \in file.published}

AnnouncedAtMostOnce == Feed!Spec
=============================================================================
