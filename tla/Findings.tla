------------------------------- MODULE Findings -------------------------------
(* The set of findings the daemon states (internal/notify), as reconciles and  *)
(* ticks replace it (internal/scout) from the copies the matcher judges        *)
(* (internal/match, internal/align).  A row that a pass does not find again is *)
(* resolved, so a pass must know what its not finding a row proves: a walk     *)
(* leaves copies unread, a lookup fails, a window holds few entries, a film    *)
(* has a copy in each arr of which only one may be judged.                     *)
(*                                                                             *)
(* What a pass reads of the world is any value the constants allow, so the     *)
(* world is a variable only once it has come to rest (`calm`).                 *)
EXTENDS FiniteSets

CONSTANTS
  Entries,         \* AniList ids SeaDex may list
  Releases,        \* what an entry recommends and a copy holds
  TitleArr,        \* the arr an entry's title links it to
  Walks,           \* the snapshots a walk may return
  Sites,           \* what SeaDex may say of the entries
  Maps,            \* where the mapping may place the entries
  ExcludeSpecials  \* filters.exclude_specials

Arrs == {"radarr", "sonarr"}
Copies == Entries \X Arrs

\* A copy is not in the library, is there without a file, has its comparison
\* withheld by its series' metadata, or holds a release.
Holdings == {"absent", "nofile", "withheld"} \cup Releases
\* A walk reads a copy's files, all but its specials, or fails to read any.
Readings == {"read", "specials", "failed"}
Snapshots == [Copies -> [held : Holdings, read : Readings]]
Placements == {"season", "specials", "nowhere"}
Mappings == [Entries -> [routes : SUBSET Arrs, placed : Placements]]
Catalogues == [Entries -> Releases \cup {"unlisted"}]
Rows == [entry : Entries, arr : Arrs, held : Releases, best : Releases]

ASSUME ConstantsAssumption ==
  /\ {"absent", "nofile", "withheld", "unlisted"} \cap Releases = {}
  /\ TitleArr \in [Entries -> Arrs]
  /\ Walks \subseteq {l \in Snapshots : \A c \in Copies :
                       /\ l[c].held = "absent" => l[c].read = "read"
                       /\ c[2] = "radarr" => l[c].read # "specials"}
  /\ Sites \subseteq Catalogues
  /\ Maps \subseteq {m \in Mappings : \A e \in Entries : m[e].routes = {} => m[e].placed = "season"}
  /\ ExcludeSpecials \in BOOLEAN

VARIABLES
  current,  \* Notifier.current
  ready,    \* Scout.ready
  library,  \* the snapshot in state.json
  mapping,  \* the mapping cache
  pass,     \* the running pass and what it has read
  calm      \* nothing fails or changes any more: what the world then holds

vars == <<current, ready, library, mapping, pass, calm>>

Read(l) == [c \in Copies |-> [held |-> l[c].held, read |-> "read"]]
Empty == [c \in Copies |-> [held |-> "absent", read |-> "read"]]

Idle == [pc |-> "idle"]
Restless == [on |-> FALSE]

-----------------------------------------------------------------------------
(* Which copies a pass judges, from a snapshot l, a mapping m and the lookups  *)
(* that failed.                                                                *)

InLibrary(l, c) == l[c].held # "absent"
Withheld(l, c) == l[c].held = "withheld"
FilesKnown(l, m, c) ==
  l[c].read = "read" \/ (l[c].read = "specials" /\ m[c[1]].placed # "specials")

\* Mutant: a copy whose files were not read holds none.
HoldsReadFile(l, m, c) == FilesKnown(l, m, c) /\ l[c].held # "nofile"
HoldsFile(l, m, c) == ~FilesKnown(l, m, c) \/ l[c].held # "nofile"

HiddenSpecial(m, e) == ExcludeSpecials /\ m[e].placed = "specials"
UnplacedSeries(m, e) == "radarr" \in m[e].routes /\ m[e].placed = "nowhere"
KeptArrs(m, e) ==
  IF HiddenSpecial(m, e) \/ UnplacedSeries(m, e) THEN m[e].routes \ {"sonarr"} ELSE m[e].routes

ChosenArrs(l, m, e) ==
  IF HoldsFile(l, m, <<e, "sonarr">>)
  THEN {"sonarr"} \cup {a \in {"radarr"} : HoldsFile(l, m, <<e, a>>)}
  ELSE {"radarr"}
JudgedArrs(l, m, e) ==
  IF \A a \in Arrs : a \in KeptArrs(m, e) /\ InLibrary(l, <<e, a>>)
  THEN ChosenArrs(l, m, e) ELSE KeptArrs(m, e)

NeedsLookup(m, e) == m[e].routes = {}
MatchedArrs(l, m, failing, e) ==
  {a \in IF NeedsLookup(m, e) THEN {TitleArr[e]} \ {b \in Arrs : e \in failing}
         ELSE JudgedArrs(l, m, e) : InLibrary(l, <<e, a>>)}
Hidden(l, m, e) ==
  "sonarr" \in m[e].routes \ KeptArrs(m, e) /\ InLibrary(l, <<e, "sonarr">>)

\* A copy the map places on no unit is offered, and has no verdict.
Compared(l, m, c) ==
  /\ FilesKnown(l, m, c)
  /\ m[c[1]].placed = "nowhere" => c[2] = "radarr"
FoundRows(l, m, failing, s, fetched) ==
  {r \in Rows : /\ r.entry \in fetched /\ r.arr \in MatchedArrs(l, m, failing, r.entry)
                /\ Compared(l, m, <<r.entry, r.arr>>)
                /\ r.held = l[<<r.entry, r.arr>>].held
                /\ r.best = s[r.entry] /\ r.held # r.best}

\* Mutant: a withheld copy that was not read is preserved like any other.
PreservedWithheld(l, m, failing, fetched) ==
  {c \in Copies : c[1] \in fetched \cap failing}
  \cup {c \in Copies : c[1] \in fetched /\ c[2] \in MatchedArrs(l, m, failing, c[1])
                       /\ ~FilesKnown(l, m, c)}
Preserved(l, m, failing, fetched) ==
  {c \in Copies : c[1] \in fetched \cap failing}
  \cup {c \in Copies : c[1] \in fetched /\ c[2] \in MatchedArrs(l, m, failing, c[1])
                       /\ ~FilesKnown(l, m, c) /\ ~Withheld(l, c)}

\* The entries a tick may resolve rows of.
EvaluatedIDs(l, m, failing, fetched) ==
  {e \in fetched : MatchedArrs(l, m, failing, e) # {} \/ Hidden(l, m, e)}

\* Mutant: a full pass resolves only what it evaluated.
AuthorityOfEvaluated(p, m) == EvaluatedIDs(p.library, m, p.failing, p.fetched)
Authority(p, m) ==
  IF p.kind = "reconcile" THEN Entries ELSE EvaluatedIDs(p.library, m, p.failing, p.fetched)

Kept(p, m) ==
  {r \in current : \/ <<r.entry, r.arr>> \in Preserved(p.library, m, p.failing, p.fetched)
                   \/ r.entry \notin Authority(p, m)}

-----------------------------------------------------------------------------
(* A reconcile walks, loads the mapping, fetches, matches and reports; a tick  *)
(* starts from the saved snapshot.                                             *)

Walk ==
  /\ pass = Idle
  /\ \E l \in IF calm.on THEN {Read(calm.library)} ELSE Walks, carried \in SUBSET Arrs :
       /\ calm.on => carried = {}
       /\ pass' = [pc |-> "map", kind |-> "reconcile",
                   library |-> [c \in Copies |-> IF c[2] \in carried THEN library[c] ELSE l[c]]]
  /\ UNCHANGED <<current, ready, library, mapping, calm>>
TickLoad ==
  /\ pass = Idle /\ ready
  /\ pass' = [pc |-> "map", kind |-> "tick", library |-> library]
  /\ UNCHANGED <<current, ready, library, mapping, calm>>
LoadMapping ==
  /\ pass.pc = "map"
  /\ mapping' \in IF calm.on THEN {calm.mapping} ELSE Maps
  /\ pass' = [pass EXCEPT !.pc = "fetch"]
  /\ UNCHANGED <<current, ready, library, calm>>
Fetch ==
  /\ pass.pc = "fetch"
  /\ \E s \in IF calm.on THEN {calm.site} ELSE Sites, window \in SUBSET Entries :
       pass' = [pc |-> "match", kind |-> pass.kind, library |-> pass.library, site |-> s,
                fetched |-> {e \in Entries : s[e] # "unlisted"
                                             /\ (pass.kind = "tick" => e \in window)}]
  /\ UNCHANGED <<current, ready, library, mapping, calm>>

\* A full fetch of nothing is no evidence that SeaDex lists nothing.
EmptyCatalogue == pass.pc = "match" /\ pass.kind = "reconcile" /\ pass.fetched = {}
Match ==
  /\ pass.pc = "match" /\ ~EmptyCatalogue
  /\ \E failing \in SUBSET {e \in pass.fetched : NeedsLookup(mapping, e)} :
       /\ calm.on => failing = {}
       /\ pass' = [pc |-> "report", kind |-> pass.kind, library |-> pass.library,
                   site |-> pass.site, fetched |-> pass.fetched, failing |-> failing]
  /\ UNCHANGED <<current, ready, library, mapping, calm>>

Save(l) == library' = l \/ (~calm.on /\ UNCHANGED library)
Report ==
  /\ pass.pc = "report"
  /\ current' = FoundRows(pass.library, mapping, pass.failing, pass.site, pass.fetched)
                \cup Kept(pass, mapping)
  /\ ready' = TRUE
  /\ Save(pass.library)
  /\ pass' = Idle
  /\ UNCHANGED <<mapping, calm>>
(* A gate closes the pass before the match; a reconcile's walk may be saved.   *)
Gated ==
  /\ (pass.pc = "fetch" /\ ~calm.on) \/ EmptyCatalogue
  /\ Save(pass.library)
  /\ pass' = Idle
  /\ UNCHANGED <<current, ready, mapping, calm>>
(* A shutdown or a crash, at any point, and a new process.                     *)
Restart ==
  /\ ~calm.on
  /\ library' \in {library} \cup (IF pass = Idle THEN {} ELSE {pass.library})
  /\ current' = {} /\ ready' = FALSE /\ pass' = Idle
  /\ UNCHANGED <<mapping, calm>>
CalmDown ==
  /\ ~calm.on /\ pass = Idle
  /\ \E l \in {k \in Walks : k = Read(k)}, m \in Maps,
        s \in {k \in Sites : \E e \in Entries : k[e] # "unlisted"} :
       calm' = [on |-> TRUE, library |-> l, mapping |-> m, site |-> s]
  /\ UNCHANGED <<current, ready, library, mapping, pass>>

Init ==
  /\ current = {} /\ ready = FALSE /\ library = Empty /\ pass = Idle
  /\ mapping \in Maps /\ calm = Restless

PassStep == LoadMapping \/ Fetch \/ Match \/ Report
Next == Walk \/ TickLoad \/ PassStep \/ Gated \/ Restart \/ CalmDown
Spec == Init /\ [][Next]_vars
(* A pass under way ends, and a reconcile recurs every reconcileEvery passes.  *)
FairSpec == Spec /\ WF_vars(PassStep) /\ SF_vars(Walk)

-----------------------------------------------------------------------------
(* Properties. *)

PassesMidway == [pc : {"map", "fetch"}, kind : {"reconcile", "tick"}, library : Snapshots]
PassesMatching == [pc : {"match"}, kind : {"reconcile", "tick"}, library : Snapshots,
                   site : Catalogues, fetched : SUBSET Entries]
PassesReporting == [pc : {"report"}, kind : {"reconcile", "tick"}, library : Snapshots,
                    site : Catalogues, fetched : SUBSET Entries, failing : SUBSET Entries]
(* Every variable has its type, and a tick runs only once a pass has reported. *)
TypeOK ==
  /\ current \subseteq Rows
  /\ ready \in BOOLEAN
  /\ library \in Snapshots /\ mapping \in Mappings
  /\ pass \in {Idle} \cup PassesMidway \cup PassesMatching \cup PassesReporting
  /\ (pass # Idle /\ ~ready) => pass.kind = "reconcile"
  /\ calm \in {Restless} \cup [on : {TRUE}, library : Snapshots, mapping : Mappings, site : Catalogues]

(* The rows a pass would find had every read and every lookup succeeded.       *)
TrueRows(l, m, s, fetched) == FoundRows(Read(l), m, {}, s, fetched)
Reporting == pass.pc = "report" /\ ready'
Truth == TrueRows(pass.library, mapping, pass.site, pass.fetched)

(* A row leaves the set only in a pass that fetched its entry, or the whole    *)
(* catalogue, and only if it does not hold of what was there to be read: no    *)
(* unread copy, failed lookup or narrow window resolves one (report).          *)
NoFalseResolve ==
  [][Reporting =>
       /\ (current \ current') \cap Truth = {}
       /\ pass.kind = "tick" => \A r \in current \ current' : r.entry \in pass.fetched]_vars

(* A row that does not hold survives a report only where the pass lacked the   *)
(* evidence: the entry's lookup failed, the copy was not read and nothing      *)
(* withholds it, or a tick did not fetch the entry or found no copy of it      *)
(* (Preserve, evaluatedIDs).                                                   *)
RowsHaveEvidence ==
  [][Reporting => \A r \in current' \ Truth :
       /\ r \in current
       /\ \/ r.entry \in pass.failing
          \/ /\ r.entry \in pass.fetched
             /\ ~FilesKnown(pass.library, mapping, <<r.entry, r.arr>>)
             /\ ~Withheld(pass.library, <<r.entry, r.arr>>)
          \/ pass.kind = "tick" /\ r.entry \notin pass.fetched
          \/ pass.kind = "tick" /\ MatchedArrs(pass.library, mapping, {}, r.entry) = {}]_vars

(* Once the world is at rest, the findings come to be exactly those that hold  *)
(* of it, and stay so.                                                         *)
Exact ==
  calm.on /\ current = TrueRows(calm.library, calm.mapping, calm.site,
                                {e \in Entries : calm.site[e] # "unlisted"})
Converges == calm.on ~> []Exact
=============================================================================
