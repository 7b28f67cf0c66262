------------------------------ MODULE Lookups ------------------------------
(* The AniList lookups of one match pass (internal/match, internal/anilist):   *)
(* the memo of earlier answers, the batched prefetch of what it lacks, the     *)
(* per-id fallback behind its breaker, and the title links made from the       *)
(* answers. AniList may fail, answer a chunk untrustworthily, or change what   *)
(* it says between passes; the process may be told to stop during one. A       *)
(* request here stands for its retries, a pass runs at one instant.            *)
EXTENDS Integers, FiniteSets, FiniteSetsExt, Functions

CONSTANTS
  Ids,              \* the AniList ids SeaDex curates, matched in ascending order
  RoutedIds,        \* those the map routes: never looked up
  Medias,           \* what AniList may hold of an id: [titles, year, format]
  Absent, Unusable, \* it holds none; it holds one with no usable title
  Library,          \* the snapshot's items: [titles, year, arr]
  AniLists,         \* what AniList may say of each id, at one time or another
  Windows,          \* the entries a tick may find updated
  PersistedMemos,   \* the memos a first pass may load
  MinTTL, MaxTTL,   \* memoMinTTL, memoMaxTTL
  BatchSize, TransientFailureCap

ASSUME LookupsAssumption ==
  /\ Ids \subseteq Int /\ IsFiniteSet(Ids) /\ RoutedIds \subseteq Ids
  /\ {MinTTL, MaxTTL, BatchSize, TransientFailureCap} \subseteq Nat \ {0}
  /\ MinTTL <= MaxTTL
  /\ AniLists \subseteq [Ids -> Medias \cup {Absent, Unusable}] /\ Windows \subseteq SUBSET Ids
  /\ \A m \in PersistedMemos : \A id \in DOMAIN m :
       /\ m[id] \in [media : SUBSET Medias, life : Nat, was : Medias \cup {Absent, Unusable}]
       /\ m[id].media = {} => m[id].was \in {Absent, Unusable}

VARIABLES
  aniList,       \* AniList: id -> a media, Absent or Unusable
  memo,          \* id -> [media, life, was]: {} for not found; life left; ghost: the answer it came from
  memoBefore,    \* ghost: the memo the pass loaded
  passAt,        \* "idle", "batch", "apply", "entries", "done"
  passKind,      \* "reconcile" prunes, "tick" does not
  passEntries,   \* the entries of the pass
  passTodo,      \* those still to match
  passLive,      \* the pass's context is live
  batchPending,  \* the ids of this FetchMany
  batchLeft,     \* those no chunk has asked for yet
  batchVerdicts, \* id -> [verdict, said]
  batchEnd,      \* how FetchMany ended: "none", "record", "canceled", "failed"
  gate,          \* lookupGate: outage, streak, tripped
  result,        \* Result: degraded, incomplete, links
  failureRun     \* ghost: requests failed in a row this pass

lookupVars == <<aniList, memo, memoBefore, passAt, passKind, passEntries, passTodo, passLive, batchPending,
                batchLeft, batchVerdicts, batchEnd, gate, result, failureRun>>
batchVars == <<batchPending, batchLeft, batchVerdicts, batchEnd>>
passVars == <<memoBefore, passKind, passEntries>>
------------------------------------------------------------------------------
(* The memo *)

Life == MinTTL..MaxTTL
LiveEntry(id) == id \in DOMAIN memo /\ memo[id].life > 0
StaleMedia(m, id) == IF id \in DOMAIN m THEN m[id].media ELSE {}
NeedsLookup(id) == id > 0 /\ id \notin RoutedIds

\* mediaEntry, notFoundEntry
Entry(answer, life) ==
  [media |-> IF answer.verdict = "found" THEN {answer.said} ELSE {}, life |-> life, was |-> answer.said]

\* Every memo write draws a lifetime of its own.
Answered(m, answers) ==
  {[id \in DOMAIN answers \cup DOMAIN m |->
      IF id \in DOMAIN answers THEN Entry(answers[id], ttl[id]) ELSE m[id]] : ttl \in [DOMAIN answers -> Life]}

\* restampSkewedExpiries: no life this policy could have given.
Skewed(m) == {id \in DOMAIN m : m[id].life > MaxTTL}
Restamped(m) ==
  {[id \in DOMAIN m |-> IF id \in Skewed(m) THEN [m[id] EXCEPT !.life = ttl[id]] ELSE m[id]]
     : ttl \in [Skewed(m) -> Life]}

\* pruneExpired: an expired entry stays for its titles, while SeaDex curates it.
PruneExpired(m, catalogue) ==
  Restrict(m, {id \in DOMAIN m : m[id].life > 0 \/ (id \in catalogue /\ m[id].media # {})})
------------------------------------------------------------------------------
(* The title link *)

\* findByTitle: the one item of the format's arr that shares a title and no other year.
TitleCandidates(media) ==
  {it \in Library : /\ it.titles \cap media.titles # {}
                    /\ media.arr \in {"any", it.arr}
                    /\ media.year = 0 \/ it.year \in {0, media.year}}
Linked(medias) ==
  LET found == UNION {TitleCandidates(m) : m \in medias}
  IN IF Cardinality(found) = 1 THEN found ELSE {}
------------------------------------------------------------------------------
(* The prefetch *)

\* The pending ids of the pass, or straight to the entries when none is.
AskInBatches(ids) ==
  /\ passAt' = IF ids = {} THEN "entries" ELSE "batch"
  /\ batchPending' = ids /\ batchLeft' = ids
  /\ batchVerdicts' = <<>> /\ batchEnd' = "none"

PendingAniListIDs(entries, m) == {id \in entries : NeedsLookup(id) /\ ~(id \in DOMAIN m /\ m[id].life > 0)}

BeginPass(kind, entries) ==
  /\ passAt = "idle"
  /\ memo' \in Restamped(memo)
  /\ memoBefore' = memo
  /\ passKind' = kind /\ passEntries' = entries /\ passTodo' = entries
  /\ gate' = [outage |-> {}, streak |-> 0, tripped |-> FALSE]
  /\ result' = [degraded |-> FALSE, incomplete |-> {}, links |-> <<>>]
  /\ failureRun' = 0
  /\ AskInBatches(PendingAniListIDs(entries, memo'))
  /\ UNCHANGED <<aniList, passLive>>

\* The next BatchSize ids, in ascending order.
Chunk == {id \in batchLeft : Cardinality({before \in batchLeft : before < id}) < BatchSize}
Found(id) == aniList[id] \in Medias

\* Mutant: what a poisoned page leaves out is as absent as what a clean one does.
ChunkVerdictsAbsent(chunk, poisoned, stray) ==
  [id \in chunk |-> [said |-> aniList[id],
                     verdict |-> IF Found(id) /\ id \notin poisoned THEN "found" ELSE "absent"]]

\* One page's verdicts: it may hold records twice or undecodable, or one nobody asked for.
ChunkVerdicts(chunk, poisoned, stray) ==
  LET recordError == stray \/ poisoned # {} \/ \E id \in chunk : aniList[id] = Unusable
  IN [id \in chunk |-> [said |-> aniList[id],
                        verdict |-> CASE Found(id) /\ id \notin poisoned -> "found"
                                      [] OTHER -> IF recordError THEN "unverified" ELSE "absent"]]

ChunkAnswers(poisoned, stray) ==
  LET chunk == Chunk
      left == batchLeft \ chunk
      verdicts == ChunkVerdicts(chunk, poisoned, stray)
      spoilt == batchEnd = "record" \/ \E id \in chunk : verdicts[id].verdict = "unverified" \/ stray
  IN /\ passAt = "batch" /\ passLive
     /\ batchVerdicts' = [id \in chunk \cup DOMAIN batchVerdicts |->
                            IF id \in chunk THEN verdicts[id] ELSE batchVerdicts[id]]
     /\ batchEnd' = IF spoilt THEN "record" ELSE "none"
     /\ batchLeft' = left /\ failureRun' = 0
     /\ passAt' = IF left = {} THEN "apply" ELSE "batch"
     /\ UNCHANGED <<aniList, memo, passVars, passTodo, passLive, batchPending, gate, result>>

\* A request or its envelope fails: the batch aborts at this chunk.
ChunkFails ==
  /\ passAt = "batch"
  /\ batchEnd' = IF passLive THEN "failed" ELSE "canceled"
  /\ passAt' = "apply"
  /\ failureRun' = IF passLive THEN failureRun + 1 ELSE failureRun
  /\ UNCHANGED <<aniList, memo, passVars, passTodo, passLive, batchPending, batchLeft, batchVerdicts, gate, result>>

Definitive(verdicts) == {id \in DOMAIN verdicts : verdicts[id].verdict \in {"found", "absent"}}

\* prefetchPass' loop over the verdicts, then prefetch's choice: outage, re-batch or go on.
ApplyBatch ==
  LET total == batchEnd = "failed" /\ DOMAIN batchVerdicts = {}
      unrequested == batchPending \ DOMAIN batchVerdicts
      retries == batchEnd = "failed" /\ unrequested # {} /\ unrequested # batchPending
  IN /\ passAt = "apply"
     /\ memo' \in Answered(memo, Restrict(batchVerdicts, Definitive(batchVerdicts)))
     /\ gate' = [gate EXCEPT !.outage = IF total THEN batchPending ELSE {}]
     /\ AskInBatches(IF retries THEN unrequested ELSE {})
     /\ UNCHANGED <<aniList, passVars, passTodo, passLive, result, failureRun>>
------------------------------------------------------------------------------
(* The entries *)

\* The next entry is matched; what memo it leaves decides its link.
Matches(id, m, incomplete) ==
  /\ memo' = m
  /\ result' = [degraded |-> result.degraded \/ incomplete # {},
                incomplete |-> result.incomplete \cup incomplete,
                links |-> [other \in DOMAIN result.links \cup {id} |->
                             IF other = id THEN Linked(StaleMedia(m, id)) ELSE result.links[other]]]
  /\ passTodo' = passTodo \ {id}
  /\ UNCHANGED <<aniList, passVars, passAt, batchVars>>

NextEntry == Min(passTodo)
AtEntry == passAt = "entries" /\ passLive /\ passTodo # {}

\* An entry that needs no lookup is linked by its routes.
SkipLookup ==
  /\ AtEntry /\ ~NeedsLookup(NextEntry)
  /\ passTodo' = passTodo \ {NextEntry}
  /\ UNCHANGED <<aniList, memo, passVars, passAt, passLive, batchVars, gate, result, failureRun>>

ServeMemo == /\ AtEntry /\ NeedsLookup(NextEntry) /\ LiveEntry(NextEntry)
             /\ Matches(NextEntry, memo, {})
             /\ UNCHANGED <<passLive, gate, failureRun>>

Misses == AtEntry /\ NeedsLookup(NextEntry) /\ ~LiveEntry(NextEntry)
Down == gate.tripped \/ NextEntry \in gate.outage

ServeDown == /\ Misses /\ Down
             /\ Matches(NextEntry, memo, {NextEntry})
             /\ UNCHANGED <<passLive, gate, failureRun>>

\* A media, a not-found and an unusable record are all answers.
FetchAnswers ==
  /\ Misses /\ ~Down
  /\ \E m \in Answered(memo, [id \in {NextEntry} |->
                              [said |-> aniList[id], verdict |-> IF Found(id) THEN "found" ELSE "absent"]]) :
       Matches(NextEntry, m, {})
  /\ gate' = [gate EXCEPT !.streak = 0] /\ failureRun' = 0
  /\ UNCHANGED passLive

FetchFailsTransiently ==
  /\ Misses /\ ~Down
  /\ Matches(NextEntry, memo, {NextEntry})
  /\ gate' = [gate EXCEPT !.streak = @ + 1,
                          !.tripped = gate.streak + 1 = TransientFailureCap]
  /\ failureRun' = failureRun + 1
  /\ UNCHANGED passLive

\* The context ends under a fetch: no fault of AniList's.
FetchCanceled ==
  /\ Misses /\ ~Down
  /\ Matches(NextEntry, memo, {NextEntry})
  /\ passLive' = FALSE
  /\ UNCHANGED <<gate, failureRun>>

\* The loop ends with its entries or its context; a whole reconcile prunes.
EndPass ==
  LET degraded == result.degraded \/ ~passLive
  IN /\ passAt = "entries" /\ (passTodo = {} \/ ~passLive)
     /\ passAt' = "done"
     /\ result' = [result EXCEPT !.degraded = degraded]
     /\ memo' = IF passKind = "reconcile" /\ ~degraded THEN PruneExpired(memo, passEntries) ELSE memo
     /\ UNCHANGED <<aniList, passVars, passTodo, passLive, batchVars, gate, failureRun>>
------------------------------------------------------------------------------
(* The surroundings *)

Cancelled == /\ passLive /\ passAt \in {"batch", "apply", "entries"} /\ passLive' = FALSE
             /\ UNCHANGED <<aniList, memo, passVars, passAt, passTodo, batchVars, gate, result, failureRun>>

\* Until the next pass the memo ages, and AniList may say something else of an id.
Later ==
  /\ passAt = "done"
  /\ passAt' = "idle" /\ passLive' = TRUE /\ passEntries' = {} /\ passTodo' = {}
  /\ memo' = [id \in DOMAIN memo |-> [memo[id] EXCEPT !.life = IF @ > 0 THEN @ - 1 ELSE 0]]
  /\ memoBefore' = memo'
  /\ aniList' \in AniLists
  /\ batchPending' = {} /\ batchLeft' = {} /\ batchVerdicts' = <<>> /\ batchEnd' = "none"
  /\ gate' = [outage |-> {}, streak |-> 0, tripped |-> FALSE]
  /\ result' = [degraded |-> FALSE, incomplete |-> {}, links |-> <<>>]
  /\ UNCHANGED <<passKind, failureRun>>

LookupsInit ==
  /\ aniList \in AniLists
  /\ memo \in PersistedMemos /\ memoBefore = memo
  /\ passAt = "idle" /\ passKind = "tick" /\ passEntries = {} /\ passTodo = {} /\ passLive = TRUE
  /\ batchPending = {} /\ batchLeft = {} /\ batchVerdicts = <<>> /\ batchEnd = "none"
  /\ gate = [outage |-> {}, streak |-> 0, tripped |-> FALSE]
  /\ result = [degraded |-> FALSE, incomplete |-> {}, links |-> <<>>]
  /\ failureRun = 0

LookupsNext ==
  \/ BeginPass("reconcile", Ids)
  \/ \E entries \in Windows : BeginPass("tick", entries)
  \/ (\E poisoned \in SUBSET {id \in Chunk : Found(id)} : ChunkAnswers(poisoned, FALSE)) \/ ChunkAnswers({}, TRUE)
  \/ ChunkFails \/ ApplyBatch
  \/ SkipLookup \/ ServeMemo \/ ServeDown \/ FetchAnswers \/ FetchFailsTransiently \/ FetchCanceled
  \/ EndPass \/ Cancelled \/ Later
LookupsSpec == LookupsInit /\ [][LookupsNext]_lookupVars
------------------------------------------------------------------------------
Missing == {Absent, Unusable}
NegativesAreAnswers == \A id \in DOMAIN memo : memo[id].media = {} => memo[id].was \in Missing

NoSilentMiss ==
  /\ \A id \in passEntries : NeedsLookup(id) =>
       LiveEntry(id) \/ id \in result.incomplete \/ (result.degraded /\ id \notin DOMAIN result.links)
  /\ result.incomplete # {} => result.degraded

TitlesKept ==
  \A id \in DOMAIN memoBefore :
    memoBefore[id].media # {} /\ (result.degraded \/ passKind = "tick" \/ id \in passEntries) =>
      id \in DOMAIN memo /\ (memo[id].media = {} => memo[id].was = aniList[id] /\ aniList[id] \in Missing)

LinksStand == \A id \in DOMAIN result.links : result.links[id] = Linked(StaleMedia(memo, id))

(* What a pass makes of an AniList that fails, garbles a page or goes away.    *)
(* The memo calls an id not found only because AniList said so of that id. A   *)
(* pass that ends undegraded has an answer for every id it needed; a degraded  *)
(* one names each id it asked in vain. Neither loses the titles of an entry    *)
(* still curated, expired or not, except to an answer, and every link made is  *)
(* the one the memo it leaves would make, so pruning took nothing from under   *)
(* it. An AniList that stays down costs a pass no more requests in a row than  *)
(* the breaker's, a batch and its re-batch.                                    *)
LookupsWhole ==
  /\ NegativesAreAnswers
  /\ passAt = "done" => NoSilentMiss /\ TitlesKept /\ LinksStand
  /\ failureRun <= TransientFailureCap + 2
==============================================================================
