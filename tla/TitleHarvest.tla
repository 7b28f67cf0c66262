---------------------------- MODULE TitleHarvest ----------------------------
(* The title harvest (internal/indexer/harvest.go): each rebuild of the feed   *)
(* spends a slice of time asking Prowlarr for the real titles of journal items *)
(* still on a synthesized one, one show on one tracker after the other, from   *)
(* where the rebuild before stopped. A tracker that keeps failing is left      *)
(* alone for the rest of the rebuild; a result titles an item only when its    *)
(* identities agree. A query here stands for its retries.                      *)
EXTENDS Naturals, FiniteSets

CONSTANTS
  Journals,    \* the journal at one rebuild or another: items [feed, key, al, hash]
  Known,       \* AniList ids with a title to query with
  Wordings,    \* al -> its title candidates, the as-is one first
  Searched,    \* the tracker scopes with an upstream
  Replies,     \* a query's pages: sets of results [info, guid, hash, fit]
  Cursors,     \* the checkpoints a first rebuild may load: a group, or NoCursor
  NoKey, NoHash, NoCursor,
  MalformedLatch, RejectedLatch  \* consecutiveMalformedLatch, consecutiveRejectedLatch

FruitlessLatch == 2 * MalformedLatch

ASSUME HarvestAssumption ==
  /\ {MalformedLatch, RejectedLatch} \subseteq Nat \ {0}
  /\ \A al \in DOMAIN Wordings : Wordings[al] \in Nat \ {0}
  /\ \A items \in Journals : \A it \in items : it.feed \in Nat /\ it.al \in Nat
  /\ Cursors \subseteq (Nat \X Nat) \cup {NoCursor} /\ NoCursor \notin Nat \X Nat

VARIABLES
  journal,         \* the feeds' items
  titled,          \* the cache: key -> ghost: every key the result it came from claimed
  rotationCursor,  \* harvest_cursor
  rotationFrom,    \* the cursor this rebuild started from
  rotation,        \* the groups it has still to process
  harvestAt,       \* "idle", "rotate" or "show"
  show,            \* the show being harvested: group, candidates tried, what came of them
  latches,         \* scope -> [failed, malformed, rejected, fruitless]
  harvestIndex,    \* the identities of this rebuild's pending items -> their keys
  rotationWatch    \* ghost: of two groups, whether the first's query left the other owed one

harvestVars == <<journal, titled, rotationCursor, rotationFrom, rotation, harvestAt, show, latches, harvestIndex, rotationWatch>>
------------------------------------------------------------------------------
(* What is pending *)

Group(scope, al) == <<scope, al>>
Scope(g) == g[1]
Al(g) == g[2]
Before(g, h) == Scope(g) < Scope(h) \/ (Scope(g) = Scope(h) /\ Al(g) < Al(h))
KeyInScope(key, scope) == key[1] = scope

\* harvestable, indexHarvestItem: a title source, and a key of the feed's own tracker.
Queryable(it) == it.al \in Known /\ KeyInScope(it.key, it.feed)
Pending(items) == {it \in items : Queryable(it) /\ it.key \notin DOMAIN titled}
GroupKeys(items, g) == {it.key : it \in {x \in items : Queryable(x) /\ x.feed = Scope(g) /\ x.al = Al(g)}}
GroupPending(g) == \E key \in GroupKeys(journal, g) : key \notin DOMAIN titled
GroupsOf(items) == {Group(it.feed, it.al) : it \in items}

\* The tracker keys, and the hashes that name a single pending item.
IndexOf(items) ==
  LET keys == {it.key : it \in items}
      holders(h) == {it \in items : it.hash = h}
      hashes == {h \in {it.hash : it \in items} \ {NoHash} : Cardinality(holders(h)) = 1}
  IN [id \in keys \cup hashes |-> IF id \in keys THEN id ELSE (CHOOSE it \in holders(id) : TRUE).key]

\* Mutant: a rebuild resumes at the group it stopped on.
PastCursorAt(cursor, g) == cursor = NoCursor \/ ~Before(g, cursor)
\* rotationStart: strictly after the cursor's group, there or not, then around.
PastCursor(cursor, g) == cursor = NoCursor \/ Before(cursor, g)
Ahead(cursor, g, h) ==
  \/ PastCursor(cursor, g) /\ ~PastCursor(cursor, h)
  \/ (PastCursor(cursor, g) <=> PastCursor(cursor, h)) /\ Before(g, h)
NextGroup == CHOOSE g \in rotation : \A h \in rotation \ {g} : Ahead(rotationFrom, g, h)
------------------------------------------------------------------------------
(* A page of results *)

Urls(r) == {r.info, r.guid} \ {NoKey}
Resolved(id) == IF id \in DOMAIN harvestIndex THEN {harvestIndex[id]} ELSE {}
Claims(r) == Urls(r) \cup Resolved(r.hash)
Foreign(r) == \E u \in Urls(r) : u \notin DOMAIN harvestIndex
Contradicts(r) ==
  \/ Cardinality(Urls(r)) = 2
  \/ ~Foreign(r) /\ Cardinality(Claims(r)) = 2
\* resolveHarvestKey: the one pending key every identity it knows agrees on.
ResolveKey(r) == IF Contradicts(r) \/ Foreign(r) THEN {} ELSE Claims(r)

\* matchHarvest: the titles a page of this scope may give, any of a key's results being preferred.
Titling(page, scope) ==
  LET usable == {r \in page : r.fit}
      keys == {k \in UNION {ResolveKey(r) : r \in usable} : KeyInScope(k, scope) /\ k \notin DOMAIN titled}
      sources == {f \in [keys -> usable] : \A k \in keys : ResolveKey(f[k]) = {k}}
  IN {[k \in keys |-> Claims(f[k])] : f \in sources}

\* pendingHarvestRefusal: a contradiction that names a release this show still lacks.
RefusesOwn(page, g, titles) ==
  \E r \in page : /\ Contradicts(r)
                  /\ \E k \in UNION {Resolved(id) : id \in Urls(r) \cup {r.hash}} :
                       k \in GroupKeys(journal, g) /\ k \notin DOMAIN titles
------------------------------------------------------------------------------
(* The latches of a scope *)

Fresh == [failed |-> FALSE, malformed |-> 0, rejected |-> 0, fruitless |-> 0]
Charged(l) == [l EXCEPT !.fruitless = @ + 1, !.failed = @ \/ l.fruitless + 1 >= FruitlessLatch]

\* updateHarvestScopeState
UpdateScope(l, outcome, contradicted) ==
  CASE outcome = "scope" -> Charged([l EXCEPT !.failed = TRUE])
    [] outcome = "malformed" -> Charged([l EXCEPT !.rejected = 0, !.malformed = @ + 1,
                                                  !.failed = @ \/ l.malformed + 1 >= MalformedLatch])
    [] outcome = "rejected" -> Charged([l EXCEPT !.malformed = 0, !.rejected = @ + 1,
                                                 !.failed = @ \/ l.rejected + 1 >= RejectedLatch])
    [] outcome = "ok" /\ contradicted -> Charged([l EXCEPT !.malformed = 0, !.rejected = 0])
    [] OTHER -> [l EXCEPT !.malformed = 0, !.rejected = 0, !.fruitless = 0]
------------------------------------------------------------------------------
(* A rebuild *)

NoShow == [group |-> NoCursor, tried |-> 0, matched |-> FALSE, refused |-> FALSE]

\* Ghost, for a pair of groups: a query of the first leaves the other owed one, unless it
\* is titled, gone, or on a tracker this rebuild gave up on.
Owed(items, titles, ls) ==
  LET other == rotationWatch.other
  IN ~(GroupKeys(items, other) \subseteq DOMAIN titles) /\ Scope(other) \in Searched /\ ~ls[Scope(other)].failed
Watch(owed) ==
  rotationWatch' = [rotationWatch EXCEPT !.owed =
                      IF owed = "owed" /\ ~Owed(journal', titled', latches') THEN "no" ELSE owed]
Queried(g) ==
  Watch(IF g = rotationWatch.other THEN "no"
        ELSE IF g # rotationWatch.group \/ show.tried > 0 THEN rotationWatch.owed
        ELSE IF rotationWatch.owed = "no" THEN "owed" ELSE "overtaken")

BeginRebuild(items) ==
  /\ harvestAt = "idle"
  /\ journal' = items
  /\ rotation' = GroupsOf(Pending(items)) /\ rotationFrom' = rotationCursor
  /\ harvestIndex' = IndexOf(Pending(items))
  /\ latches' = [s \in DOMAIN latches |-> Fresh]
  /\ harvestAt' = "rotate"
  /\ UNCHANGED <<titled, rotationCursor, show>>
  /\ Watch(rotationWatch.owed)

\* The slice is spent, or the rotation is through.
EndRebuild ==
  /\ harvestAt = "rotate" /\ harvestAt' = "idle" /\ rotation' = {} /\ rotationFrom' = NoCursor
  /\ harvestIndex' = <<>> /\ latches' = [s \in DOMAIN latches |-> Fresh]
  /\ UNCHANGED <<journal, titled, rotationCursor, show, rotationWatch>>

Blocked(g) == latches[Scope(g)].failed \/ Scope(g) \notin Searched

\* An earlier query titled it, or its scope is condemned or not searched.
PassGroup ==
  /\ harvestAt = "rotate" /\ rotation # {}
  /\ ~GroupPending(NextGroup) \/ Blocked(NextGroup)
  /\ rotation' = rotation \ {NextGroup}
  /\ UNCHANGED <<journal, titled, rotationCursor, rotationFrom, harvestAt, show, latches, harvestIndex, rotationWatch>>

BeginShow ==
  /\ harvestAt = "rotate" /\ rotation # {}
  /\ GroupPending(NextGroup) /\ ~Blocked(NextGroup)
  /\ harvestAt' = "show" /\ rotation' = rotation \ {NextGroup}
  /\ show' = [NoShow EXCEPT !.group = NextGroup]
  /\ UNCHANGED <<journal, titled, rotationCursor, rotationFrom, latches, harvestIndex, rotationWatch>>

\* processHarvestGroup's end: the cursor follows a query, a show that matched did not fail.
FinishShow(outcome, queries, matched, refused) ==
  LET g == show.group
      judged == IF matched /\ outcome \in {"malformed", "rejected"} THEN "ok" ELSE outcome
  IN /\ harvestAt' = "rotate" /\ show' = NoShow
     /\ rotationCursor' = IF queries > 0 THEN g ELSE rotationCursor
     /\ latches' = [latches EXCEPT ![Scope(g)] = UpdateScope(@, judged, ~matched /\ refused)]

QueryAnswers(page) ==
  LET g == show.group
      tried == show.tried + 1
  IN /\ harvestAt = "show"
     /\ \E found \in Titling(page, Scope(g)) :
          LET titles == [key \in DOMAIN found \cup DOMAIN titled |->
                           IF key \in DOMAIN found THEN found[key] ELSE titled[key]]
              matched == show.matched \/ DOMAIN found # {}
              refused == show.refused \/ RefusesOwn(page, g, titles)
          IN /\ titled' = titles
             /\ IF GroupKeys(journal, g) \subseteq DOMAIN titles \/ tried = Wordings[Al(g)]
                  THEN FinishShow("ok", tried, matched, refused)
                  ELSE /\ show' = [show EXCEPT !.tried = tried, !.matched = matched, !.refused = refused]
                       /\ UNCHANGED <<rotationCursor, harvestAt, latches>>
     /\ UNCHANGED <<journal, rotationFrom, rotation, harvestIndex>>
     /\ Queried(g)

\* A garbled body, a rejected request, or a failure of the tracker itself.
QueryFails(outcome) ==
  /\ harvestAt = "show"
  /\ FinishShow(outcome, show.tried + 1, show.matched, show.refused)
  /\ UNCHANGED <<journal, titled, rotationFrom, rotation, harvestIndex>>
  /\ Queried(show.group)

\* The slice ends between two queries of a show.
SliceEnds ==
  /\ harvestAt = "show"
  /\ FinishShow("ok", show.tried, show.matched, show.refused)
  /\ rotation' = {}
  /\ UNCHANGED <<journal, titled, rotationFrom, harvestIndex>>
  /\ Watch(rotationWatch.owed)

Watches ==
  LET groups == UNION {GroupsOf(items) : items \in Journals}
  IN {[group |-> p[1], other |-> p[2], owed |-> "no"] : p \in {q \in groups \X groups : q[1] # q[2]}}
HarvestInit ==
  /\ journal \in Journals /\ titled = <<>>
  /\ rotationCursor \in Cursors
  /\ rotationFrom = NoCursor /\ rotation = {} /\ harvestAt = "idle" /\ show = NoShow /\ harvestIndex = <<>>
  /\ latches = [s \in UNION {{it.feed : it \in items} : items \in Journals} |-> Fresh]
  /\ rotationWatch \in Watches

HarvestNext ==
  \/ \E items \in Journals : BeginRebuild(items)
  \/ EndRebuild \/ PassGroup \/ BeginShow \/ SliceEnds
  \/ \E page \in Replies : QueryAnswers(page)
  \/ \E outcome \in {"malformed", "rejected", "scope"} : QueryFails(outcome)
HarvestSpec == HarvestInit /\ [][HarvestNext]_harvestVars
------------------------------------------------------------------------------
(* Across any number of slices, restarts of the rotation and changes of the    *)
(* journal, no show is asked about twice while another that was pending and    *)
(* askable all along was not asked about once. Titles are given only by        *)
(* results none of whose identities name another pending item.                 *)
HarvestWhole ==
  /\ rotationWatch.owed # "overtaken"
  /\ \A key \in DOMAIN titled : titled[key] = {key}
==============================================================================
