--------------------------- MODULE CatalogueFetch ---------------------------
(* One walk of the SeaDex collection (internal/seadexapi): pages of records in *)
(* (created, id) order, each asked for past the last record of the one before, *)
(* until a short page ends the walk. Records come and go while it runs, and a  *)
(* page may be served wrongly: cut short, from the top again, out of order,    *)
(* with a total that vouches for nothing. The walk ends in the whole           *)
(* collection, or in an error. A record is its cursor and its AniList id; what *)
(* it weighs is its elements, which stand for its bytes too.                   *)
EXTENDS Naturals, FiniteSets, Sequences, FiniteSetsExt, SequencesExt

CONSTANTS
  Record,       \* [created, id, al, weight, fresh]: what upstream may hold
  PerPage, MaxPages,
  MaxPageWeight, MaxTotalWeight,  \* the element budgets
  MaxChanges    \* bound: changes upstream makes during a walk

ASSUME FetchAssumption ==
  /\ {PerPage, MaxPages, MaxPageWeight, MaxTotalWeight} \subseteq Nat \ {0}
  /\ MaxPageWeight <= MaxTotalWeight /\ MaxChanges \in Nat
  /\ IsFiniteSet(Record)
  /\ \A r \in Record : {r.created, r.id, r.al, r.weight} \subseteq Nat /\ r.fresh \in BOOLEAN

VARIABLES
  fetchMode,    \* "full", or "window": only records updated since the last tick
  fetchAt,      \* "walking", "accepted" or "refused"
  upstream,     \* the records SeaDex holds
  upStanding,   \* ghost: those it has held since the walk began
  upChanges,    \* changes made so far
  pageCursor,   \* the last record read, {} before the first
  collected,    \* all: the records read, in order
  fetchTotals,  \* fetchTotals: weight, reported total and pages, chunks
  fetchFaults   \* ghost: the kinds of wrong page served

catalogueVars == <<fetchMode, fetchAt, upstream, upStanding, upChanges, pageCursor,
                   collected, fetchTotals, fetchFaults>>
------------------------------------------------------------------------------
Past(r, c) == r.created > c.created \/ (r.created = c.created /\ r.id > c.id)

\* Mutant: the next page asks for what was created after the last record.
JoinFiltersByCreated(cur) ==
  {r \in upstream : /\ \A c \in cur : r.created > c.created
                    /\ fetchMode = "window" => r.fresh}
\* joinFilters: past the cursor, and inside the window.
JoinFilters(cur) ==
  {r \in upstream : /\ \A c \in cur : Past(r, c)
                    /\ fetchMode = "window" => r.fresh}

Place(rs, r) == Cardinality({q \in rs : Past(r, q)}) + 1
Sorted(rs) == [i \in 1..Cardinality(rs) |-> CHOOSE r \in rs : Place(rs, r) = i]
FirstOf(rows, n) == SubSeq(rows, 1, IF n < Len(rows) THEN n ELSE Len(rows))
PagesFor(total) == (total + PerPage - 1) \div PerPage

(* What one request may be answered with: the page, and the faulty forms of it. *)
Page(kind, rows, total) == [kind |-> kind, rows |-> rows, total |-> total, pages |-> PagesFor(total)]
Pages ==
  LET match == JoinFilters(pageCursor)
      rows == FirstOf(Sorted(match), PerPage)
      total == Cardinality(match)
  IN {Page("honest", rows, total), Page("unvouched", rows, 0), Page("unvouched", <<>>, total)}
     \cup {Page("cut", FirstOf(rows, n), total) : n \in 0..Len(rows) - 1}
     \cup {Page("unsorted", Reverse(rows), total)}
     \cup {Page("restarted", FirstOf(Sorted(JoinFilters({})), PerPage), Cardinality(JoinFilters({})))}
     \cup {[Page("unfit", rows, total + PerPage) EXCEPT !.pages = PagesFor(total)]}

Weight(rows) ==
  LET sum[i \in 0..Len(rows)] == IF i = 0 THEN 0 ELSE rows[i].weight + sum[i - 1] IN sum[Len(rows)]
ToRecords(rows) == {rows[i] : i \in DOMAIN rows}
IdsOf(rows) == {rows[i].al : i \in DOMAIN rows}

\* validatePageIdentities: every id positive and new to the walk.
ValidIdentities(rows) ==
  /\ \A i \in DOMAIN rows : rows[i].al > 0 /\ rows[i].al \notin IdsOf(collected)
  /\ Cardinality(IdsOf(rows)) = Len(rows)
\* advanceCursor: every record past the one before, the first past the cursor.
Advances(rows) ==
  \A i \in DOMAIN rows : IF i = 1 THEN \A c \in pageCursor : Past(rows[1], c)
                                  ELSE Past(rows[i], rows[i - 1])

WithinBudgets(rows) ==
  LET left == MaxTotalWeight - fetchTotals.weight
      limit == IF left < MaxPageWeight THEN left ELSE MaxPageWeight
  IN left > 0 /\ Weight(rows) <= limit

\* chunkComplete: a short page ends the walk; an empty one only when the totals agree.
ChunkRefused(rows, page, fetched, total) ==
  rows = <<>> /\ page > 1 /\ (total <= 0 \/ fetched < total)

Shrunk(count, before) == 2 * count < before
FitsPages(t) == t.total <= t.pages * PerPage
\* validateFinishedFetch
ValidateFinishedFetch(count, t) ==
  /\ FitsPages(t)
  /\ fetchMode = "full" => count > 0 /\ t.total > 0 /\ ~Shrunk(count, t.total)

Refuse == /\ fetchAt' = "refused"
          /\ UNCHANGED <<fetchMode, upstream, upStanding, upChanges, pageCursor, collected, fetchTotals>>

\* A request that fails after its attempts, or the walk's own hour running out.
FetchFails == /\ fetchAt = "walking" /\ Refuse /\ UNCHANGED fetchFaults

\* fetchAndAppend over one served page, then finishFetch when it was the last.
FetchPage(page) ==
  LET rows == page.rows
      all == collected \o rows
      tot == [weight |-> fetchTotals.weight + Weight(rows), chunks |-> fetchTotals.chunks + 1,
              total |-> Max({fetchTotals.total, page.total}), pages |-> Max({fetchTotals.pages, page.pages})]
      done == Len(rows) < PerPage
  IN /\ fetchAt = "walking"
     /\ fetchFaults' = fetchFaults \cup ({page.kind} \ {"honest"})
     /\ IF \/ ~WithinBudgets(rows) \/ ~ValidIdentities(rows) \/ ~Advances(rows)
           \/ done /\ ChunkRefused(rows, tot.chunks, Len(all), tot.total)
           \/ done /\ ~ValidateFinishedFetch(Len(all), tot)
           \/ ~done /\ tot.chunks = MaxPages
          THEN Refuse
        ELSE /\ collected' = all /\ fetchTotals' = tot
             /\ fetchAt' = IF done THEN "accepted" ELSE "walking"
             /\ pageCursor' = IF done THEN pageCursor ELSE {rows[Len(rows)]}
             /\ UNCHANGED <<fetchMode, upstream, upStanding, upChanges>>

\* Between two pages SeaDex gains or loses a record.
Insert(r) ==
  /\ fetchAt = "walking" /\ upChanges < MaxChanges
  /\ \A q \in upstream : q.al # r.al /\ r.created >= q.created /\ <<q.created, q.id>> # <<r.created, r.id>>
  /\ upstream' = upstream \cup {r} /\ upChanges' = upChanges + 1
  /\ UNCHANGED <<fetchMode, fetchAt, upStanding, pageCursor, collected, fetchTotals, fetchFaults>>
Delete(r) ==
  /\ fetchAt = "walking" /\ upChanges < MaxChanges
  /\ upstream' = upstream \ {r} /\ upStanding' = upStanding \ {r} /\ upChanges' = upChanges + 1
  /\ UNCHANGED <<fetchMode, fetchAt, pageCursor, collected, fetchTotals, fetchFaults>>

CatalogueInit ==
  /\ fetchMode \in {"full", "window"} /\ fetchAt = "walking"
  /\ upstream \in {rs \in SUBSET Record : \A r, q \in rs : r # q =>
       r.al # q.al /\ <<r.created, r.id>> # <<q.created, q.id>>}
  /\ upStanding = upstream /\ upChanges = 0
  /\ pageCursor = {} /\ collected = <<>>
  /\ fetchTotals = [weight |-> 0, chunks |-> 0, total |-> 0, pages |-> 0]
  /\ fetchFaults = {}
CatalogueNext ==
  \/ FetchFails \/ (\E page \in Pages : FetchPage(page))
  \/ \E r \in Record : Insert(r)
  \/ \E r \in upstream : Delete(r)
CatalogueSpec == CatalogueInit /\ [][CatalogueNext]_catalogueVars
------------------------------------------------------------------------------
Asked(rs) == {r \in rs : fetchMode = "window" => r.fresh}

(* What an accepted walk collected. It never holds an entry twice or out of    *)
(* order, and stays inside the budgets, however wrongly upstream serves. It    *)
(* holds every record that stood throughout, those created in the same instant *)
(* included: pages out of order, from the top again or with totals that cannot *)
(* be are refused. Only a page cut short or one that vouches for nothing may   *)
(* cost records, and a full walk still never comes out empty or below half of  *)
(* the largest total any page reported.                                        *)
CatalogueWhole ==
  LET rows == collected
      holds == ToRecords(rows)
  IN /\ Len(rows) = Cardinality(holds) /\ Len(rows) = Cardinality(IdsOf(rows))
     /\ \A i \in 2..Len(rows) : Past(rows[i], rows[i - 1])
     /\ Weight(rows) <= MaxTotalWeight
     /\ fetchAt = "accepted" =>
          /\ fetchFaults \cap {"cut", "unvouched"} = {} => Asked(upStanding) \subseteq holds
          /\ fetchMode = "full" => rows # <<>> /\ 2 * Len(rows) >= fetchTotals.total
=============================================================================
