---------------------------- MODULE FindingsProofs ----------------------------
(* What a report may do to the set of findings, for every set of entries,      *)
(* releases, walks, catalogues and mappings.                                   *)
(*                                                                             *)
(* The heart is a relation between what a pass judges from what it read of the *)
(* library and what it would have judged from a complete reading: a copy that  *)
(* may hold a file is never left out because another copy was not read, and a  *)
(* copy that was read and judged would have been judged all the same.          *)
EXTENDS Findings, TLAPS

-----------------------------------------------------------------------------
(* What complete readings change. *)

LEMMA ReadCopy ==
  ASSUME NEW l, NEW m, NEW c \in Copies
  PROVE  /\ InLibrary(Read(l), c) <=> InLibrary(l, c)
         /\ FilesKnown(Read(l), m, c)
         /\ Read(l)[c].held = l[c].held
BY DEF InLibrary, FilesKnown, Read

LEMMA ReadHoldsFile ==
  ASSUME NEW l, NEW m, NEW c \in Copies
  PROVE  /\ HoldsFile(Read(l), m, c) <=> l[c].held # "nofile"
         /\ HoldsFile(Read(l), m, c) => HoldsFile(l, m, c)
         /\ FilesKnown(l, m, c) => (HoldsFile(l, m, c) <=> HoldsFile(Read(l), m, c))
BY ReadCopy DEF HoldsFile

(* A copy judged from a complete reading is judged from what was read if it    *)
(* holds a file (copies).                                                      *)
LEMMA JudgedThenJudged ==
  ASSUME NEW l, NEW m, NEW e \in Entries, NEW a \in Arrs,
         a \in JudgedArrs(Read(l), m, e), l[<<e, a>>].held # "nofile"
  PROVE  a \in JudgedArrs(l, m, e)
<1>1. \A b \in Arrs : <<e, b>> \in Copies
  BY DEF Copies
<1>2. \A b \in Arrs : InLibrary(Read(l), <<e, b>>) <=> InLibrary(l, <<e, b>>)
  BY <1>1, ReadCopy
<1>3. HoldsFile(l, m, <<e, a>>)
  BY <1>1, ReadHoldsFile
<1>4. a \in ChosenArrs(l, m, e)
  BY <1>3 DEF ChosenArrs, Arrs
<1> QED
  BY <1>2, <1>4 DEF JudgedArrs

(* A copy that was read and judged would be judged from a complete reading.    *)
LEMMA JudgedReadThenJudged ==
  ASSUME NEW l, NEW m, NEW e \in Entries, NEW a \in Arrs,
         a \in JudgedArrs(l, m, e), FilesKnown(l, m, <<e, a>>)
  PROVE  a \in JudgedArrs(Read(l), m, e)
<1>1. \A b \in Arrs : <<e, b>> \in Copies
  BY DEF Copies
<1>2. \A b \in Arrs : InLibrary(Read(l), <<e, b>>) <=> InLibrary(l, <<e, b>>)
  BY <1>1, ReadCopy
<1>3. HoldsFile(l, m, <<e, a>>) <=> HoldsFile(Read(l), m, <<e, a>>)
  BY <1>1, ReadHoldsFile
<1>4. \A b \in Arrs : HoldsFile(Read(l), m, <<e, b>>) => HoldsFile(l, m, <<e, b>>)
  BY <1>1, ReadHoldsFile
<1>5. a \in ChosenArrs(l, m, e) => a \in ChosenArrs(Read(l), m, e)
  BY <1>3, <1>4 DEF ChosenArrs, Arrs
<1> QED
  BY <1>2, <1>5 DEF JudgedArrs

LEMMA MatchedThenMatched ==
  ASSUME NEW l, NEW m, NEW failing, NEW e \in Entries, NEW a \in Arrs, e \notin failing,
         a \in MatchedArrs(Read(l), m, {}, e), l[<<e, a>>].held # "nofile"
  PROVE  a \in MatchedArrs(l, m, failing, e)
<1>1. InLibrary(l, <<e, a>>)
  BY ReadCopy DEF MatchedArrs, Copies
<1>2. CASE NeedsLookup(m, e)
  BY <1>1, <1>2 DEF MatchedArrs
<1>3. CASE ~NeedsLookup(m, e)
  <2>1. a \in JudgedArrs(Read(l), m, e)
    BY <1>3 DEF MatchedArrs
  <2>2. a \in JudgedArrs(l, m, e)
    BY <2>1, JudgedThenJudged
  <2> QED
    BY <1>1, <1>3, <2>2 DEF MatchedArrs
<1> QED
  BY <1>2, <1>3

LEMMA MatchedReadThenMatched ==
  ASSUME NEW l, NEW m, NEW failing, NEW e \in Entries, NEW a \in Arrs,
         a \in MatchedArrs(l, m, failing, e), FilesKnown(l, m, <<e, a>>)
  PROVE  a \in MatchedArrs(Read(l), m, {}, e)
<1>1. InLibrary(Read(l), <<e, a>>)
  BY ReadCopy DEF MatchedArrs, Copies
<1>2. CASE NeedsLookup(m, e)
  BY <1>1, <1>2 DEF MatchedArrs
<1>3. CASE ~NeedsLookup(m, e)
  <2>1. a \in JudgedArrs(l, m, e)
    BY <1>3 DEF MatchedArrs
  <2>2. a \in JudgedArrs(Read(l), m, e)
    BY <2>1, JudgedReadThenJudged
  <2> QED
    BY <1>1, <1>3, <2>2 DEF MatchedArrs
<1> QED
  BY <1>2, <1>3

LEMMA FoundIsTrue ==
  ASSUME NEW l, NEW m, NEW failing, NEW s, NEW fetched
  PROVE  FoundRows(l, m, failing, s, fetched) \subseteq TrueRows(l, m, s, fetched)
<1> SUFFICES ASSUME NEW r \in FoundRows(l, m, failing, s, fetched)
             PROVE  r \in TrueRows(l, m, s, fetched)
  OBVIOUS
<1>1. /\ r \in Rows /\ r.entry \in fetched
      /\ r.arr \in MatchedArrs(l, m, failing, r.entry)
      /\ Compared(l, m, <<r.entry, r.arr>>)
      /\ r.held = l[<<r.entry, r.arr>>].held
      /\ r.best = s[r.entry] /\ r.held # r.best
  BY DEF FoundRows
<1>2. r.entry \in Entries /\ r.arr \in Arrs /\ <<r.entry, r.arr>> \in Copies
  BY <1>1 DEF Rows, Copies
<1>3. r.arr \in MatchedArrs(Read(l), m, {}, r.entry)
  BY <1>1, <1>2, MatchedReadThenMatched DEF Compared
<1>4. Compared(Read(l), m, <<r.entry, r.arr>>)
  BY <1>1, <1>2, ReadCopy DEF Compared
<1>5. r.held = Read(l)[<<r.entry, r.arr>>].held
  BY <1>1, <1>2, ReadCopy
<1> QED
  BY <1>1, <1>3, <1>4, <1>5 DEF TrueRows, FoundRows

(* A row that holds of what was there to be read is found, or its copy was not *)
(* read and it is preserved, unless its entry's lookup failed.                 *)
LEMMA TrueIsFoundOrPreserved ==
  ASSUME NEW l, NEW m, NEW failing, NEW s, NEW fetched, ConstantsAssumption,
         NEW r \in TrueRows(l, m, s, fetched)
  PROVE  \/ r \in FoundRows(l, m, failing, s, fetched)
         \/ <<r.entry, r.arr>> \in Preserved(l, m, failing, fetched)
<1>1. /\ r \in Rows /\ r.entry \in fetched
      /\ r.arr \in MatchedArrs(Read(l), m, {}, r.entry)
      /\ Compared(Read(l), m, <<r.entry, r.arr>>)
      /\ r.held = Read(l)[<<r.entry, r.arr>>].held
      /\ r.best = s[r.entry] /\ r.held # r.best
  BY DEF TrueRows, FoundRows
<1>2. r.entry \in Entries /\ r.arr \in Arrs /\ r.held \in Releases /\ <<r.entry, r.arr>> \in Copies
  BY <1>1 DEF Rows, Copies
<1>3. r.held = l[<<r.entry, r.arr>>].held
  BY <1>1, <1>2, ReadCopy
<1>4. l[<<r.entry, r.arr>>].held \notin {"nofile", "withheld"}
  BY <1>2, <1>3 DEF ConstantsAssumption
<1>5. CASE r.entry \in failing
  BY <1>1, <1>2, <1>5 DEF Preserved
<1>6. CASE r.entry \notin failing
  <2>1. r.arr \in MatchedArrs(l, m, failing, r.entry)
    BY <1>1, <1>2, <1>4, <1>6, MatchedThenMatched
  <2>2. CASE FilesKnown(l, m, <<r.entry, r.arr>>)
    <3>1. Compared(l, m, <<r.entry, r.arr>>)
      BY <1>1, <2>2 DEF Compared
    <3> QED
      BY <1>1, <1>3, <2>1, <3>1 DEF FoundRows
  <2>3. CASE ~FilesKnown(l, m, <<r.entry, r.arr>>)
    <3>1. ~Withheld(l, <<r.entry, r.arr>>)
      BY <1>4 DEF Withheld
    <3>2. <<r.entry, r.arr>>[1] = r.entry /\ <<r.entry, r.arr>>[2] = r.arr
      OBVIOUS
    <3> QED
      BY <1>1, <1>2, <2>1, <2>3, <3>1, <3>2 DEF Preserved
  <2> QED
    BY <2>2, <2>3
<1> QED
  BY <1>5, <1>6

-----------------------------------------------------------------------------
(* The type invariant. *)

Passes == {Idle} \cup PassesMidway \cup PassesMatching \cup PassesReporting
Kinds == {"reconcile", "tick"}

LEMMA ReadType ==
  ASSUME NEW l \in Snapshots PROVE Read(l) \in Snapshots
BY DEF Snapshots, Read, Readings

LEMMA InitTypeOK == Init /\ ConstantsAssumption => TypeOK
<1> SUFFICES ASSUME Init, ConstantsAssumption PROVE TypeOK
  OBVIOUS
<1>1. library \in Snapshots
  BY DEF Init, Empty, Snapshots, Holdings, Readings
<1>2. mapping \in Mappings
  BY DEF Init, ConstantsAssumption
<1> QED
  BY <1>1, <1>2 DEF Init, TypeOK, Idle, Restless

\* What a running pass has read, at each point it can be at.
LEMMA PassFields ==
  ASSUME pass \in Passes
  PROVE  /\ pass # Idle => pass.kind \in Kinds /\ pass.library \in Snapshots
         /\ pass.pc = "map" => pass \in PassesMidway
         /\ pass.pc = "fetch" => pass \in PassesMidway
         /\ pass.pc = "match" => pass \in PassesMatching
         /\ pass.pc = "report" => pass \in PassesReporting
BY DEF Passes, PassesMidway, PassesMatching, PassesReporting, Idle, Kinds

\* What the world holds at rest.
LEMMA CalmFields ==
  ASSUME TypeOK, calm.on
  PROVE  calm.library \in Snapshots /\ calm.mapping \in Mappings /\ calm.site \in Catalogues
<1>1. calm # Restless
  <2>1. Restless.on = FALSE
    BY DEF Restless
  <2> QED
    BY <2>1
<1>2. calm \in [on : {TRUE}, library : Snapshots, mapping : Mappings, site : Catalogues]
  BY <1>1 DEF TypeOK
<1> QED
  BY <1>2

LEMMA WalkTypeOK == TypeOK /\ ConstantsAssumption /\ Walk => TypeOK'
<1> SUFFICES ASSUME TypeOK, ConstantsAssumption, Walk PROVE TypeOK'
  OBVIOUS
<1>1. PICK l \in IF calm.on THEN {Read(calm.library)} ELSE Walks, carried \in SUBSET Arrs :
        pass' = [pc |-> "map", kind |-> "reconcile",
                 library |-> [c \in Copies |-> IF c[2] \in carried THEN library[c] ELSE l[c]]]
  BY DEF Walk
<1>2. l \in Snapshots
  <2>1. CASE calm.on
    BY <1>1, <2>1, ReadType, CalmFields
  <2>2. CASE ~calm.on
    BY <1>1, <2>2 DEF ConstantsAssumption
  <2> QED
    BY <2>1, <2>2
<1>3. [c \in Copies |-> IF c[2] \in carried THEN library[c] ELSE l[c]] \in Snapshots
  BY <1>2 DEF TypeOK, Snapshots
<1>4. pass' \in PassesMidway /\ pass'.kind = "reconcile"
  BY <1>1, <1>3 DEF PassesMidway
<1> QED
  BY <1>4 DEF Walk, TypeOK

LEMMA TickLoadTypeOK == TypeOK /\ TickLoad => TypeOK'
<1> SUFFICES ASSUME TypeOK, TickLoad PROVE TypeOK'
  OBVIOUS
<1>1. pass' \in PassesMidway
  BY DEF TickLoad, TypeOK, PassesMidway
<1> QED
  BY <1>1 DEF TickLoad, TypeOK

LEMMA LoadMappingTypeOK == TypeOK /\ ConstantsAssumption /\ LoadMapping => TypeOK'
<1> SUFFICES ASSUME TypeOK, ConstantsAssumption, LoadMapping PROVE TypeOK'
  OBVIOUS
<1>1. mapping' \in Mappings
  BY CalmFields DEF LoadMapping, ConstantsAssumption
<1>2. pass \in PassesMidway
  BY PassFields DEF LoadMapping, TypeOK, Passes
<1>3. pass' \in PassesMidway /\ pass'.kind = pass.kind
  BY <1>2 DEF LoadMapping, PassesMidway
<1>4. pass # Idle
  BY DEF LoadMapping, Idle
<1> QED
  BY <1>1, <1>3, <1>4 DEF LoadMapping, TypeOK

LEMMA FetchTypeOK == TypeOK /\ ConstantsAssumption /\ Fetch => TypeOK'
<1> SUFFICES ASSUME TypeOK, ConstantsAssumption, Fetch PROVE TypeOK'
  OBVIOUS
<1>1. PICK s \in IF calm.on THEN {calm.site} ELSE Sites, window \in SUBSET Entries :
        pass' = [pc |-> "match", kind |-> pass.kind, library |-> pass.library, site |-> s,
                 fetched |-> {e \in Entries : s[e] # "unlisted"
                                              /\ (pass.kind = "tick" => e \in window)}]
  BY DEF Fetch
<1>2. s \in Catalogues
  BY <1>1, CalmFields DEF ConstantsAssumption
<1>3. pass \in PassesMidway /\ pass # Idle
  BY PassFields DEF Fetch, TypeOK, Passes, Idle
<1>4. pass' \in PassesMatching /\ pass'.kind = pass.kind
  BY <1>1, <1>2, <1>3 DEF PassesMidway, PassesMatching
<1> QED
  BY <1>3, <1>4 DEF Fetch, TypeOK

LEMMA MatchTypeOK == TypeOK /\ Match => TypeOK'
<1> SUFFICES ASSUME TypeOK, Match PROVE TypeOK'
  OBVIOUS
<1>1. pass \in PassesMatching /\ pass # Idle
  BY PassFields DEF Match, TypeOK, Passes, Idle
<1>2. PICK failing \in SUBSET pass.fetched :
        pass' = [pc |-> "report", kind |-> pass.kind, library |-> pass.library,
                 site |-> pass.site, fetched |-> pass.fetched, failing |-> failing]
  BY DEF Match
<1>3. pass' \in PassesReporting /\ pass'.kind = pass.kind
  BY <1>1, <1>2 DEF PassesMatching, PassesReporting
<1> QED
  BY <1>1, <1>3 DEF Match, TypeOK

LEMMA ReportTypeOK == TypeOK /\ Report => TypeOK'
<1> SUFFICES ASSUME TypeOK, Report PROVE TypeOK'
  OBVIOUS
<1>1. pass.library \in Snapshots
  BY PassFields DEF Report, TypeOK, Passes, Idle
<1>2. current' \subseteq Rows
  BY DEF Report, TypeOK, FoundRows, Kept
<1> QED
  BY <1>1, <1>2 DEF Report, Save, TypeOK

LEMMA GatedTypeOK == TypeOK /\ Gated => TypeOK'
<1> SUFFICES ASSUME TypeOK, Gated PROVE TypeOK'
  OBVIOUS
<1>1. pass.library \in Snapshots
  BY PassFields DEF Gated, EmptyCatalogue, TypeOK, Passes, Idle
<1> QED
  BY <1>1 DEF Gated, Save, TypeOK

LEMMA RestartTypeOK == TypeOK /\ Restart => TypeOK'
<1> SUFFICES ASSUME TypeOK, Restart PROVE TypeOK'
  OBVIOUS
<1>1. library' \in Snapshots
  BY PassFields DEF Restart, TypeOK, Passes
<1> QED
  BY <1>1 DEF Restart, TypeOK

LEMMA CalmDownTypeOK == TypeOK /\ ConstantsAssumption /\ CalmDown => TypeOK'
BY DEF CalmDown, TypeOK, ConstantsAssumption

(* Every variable has its type, and no tick runs before a pass has reported.   *)
THEOREM TypeCorrect == Spec => []TypeOK
<1>1. Init => TypeOK
  BY InitTypeOK, ConstantsAssumption
<1>2. TypeOK /\ [Next]_vars => TypeOK'
  <2> SUFFICES ASSUME TypeOK, [Next]_vars PROVE TypeOK'
    OBVIOUS
  <2>1. CASE Walk
    BY <2>1, WalkTypeOK, ConstantsAssumption
  <2>2. CASE TickLoad
    BY <2>2, TickLoadTypeOK
  <2>3. CASE LoadMapping
    BY <2>3, LoadMappingTypeOK, ConstantsAssumption
  <2>4. CASE Fetch
    BY <2>4, FetchTypeOK, ConstantsAssumption
  <2>5. CASE Match
    BY <2>5, MatchTypeOK
  <2>6. CASE Report
    BY <2>6, ReportTypeOK
  <2>7. CASE Gated
    BY <2>7, GatedTypeOK
  <2>8. CASE Restart
    BY <2>8, RestartTypeOK
  <2>9. CASE CalmDown
    BY <2>9, CalmDownTypeOK, ConstantsAssumption
  <2>10. CASE UNCHANGED vars
    BY <2>10 DEF vars, TypeOK
  <2> QED
    BY <2>1, <2>2, <2>3, <2>4, <2>5, <2>6, <2>7, <2>8, <2>9, <2>10 DEF Next, PassStep
<1> QED
  BY <1>1, <1>2, PTL DEF Spec

-----------------------------------------------------------------------------
(* What a report may do. *)

\* A step from a pass that is to report, to a state with findings, is a report.
LEMMA ReportingIsReport ==
  ASSUME Next, Reporting PROVE Report
<1>1. pass.pc = "report" /\ pass # Idle
  BY DEF Reporting, Idle
<1>2. ~Walk /\ ~TickLoad /\ ~LoadMapping /\ ~Fetch /\ ~Match /\ ~Gated /\ ~CalmDown
  BY <1>1 DEF Walk, TickLoad, LoadMapping, Fetch, Match, Gated, EmptyCatalogue, CalmDown
<1>3. ~Restart
  <2>1. Restart => ready' = FALSE
    BY DEF Restart
  <2> QED
    BY <2>1 DEF Reporting
<1> QED
  BY <1>2, <1>3 DEF Next, PassStep

LEMMA ReportOutcome ==
  ASSUME TypeOK, Next, Reporting
  PROVE  /\ current' = FoundRows(pass.library, mapping, pass.failing, pass.site, pass.fetched)
                       \cup Kept(pass, mapping)
         /\ pass.kind \in Kinds
         /\ current \subseteq Rows
<1>1. Report
  BY ReportingIsReport
<1>2. pass.kind \in Kinds
  BY PassFields DEF Reporting, TypeOK, Passes, Idle
<1> QED
  BY <1>1, <1>2 DEF Report, TypeOK

(* A row leaves the set only in a pass that fetched its entry, or the whole    *)
(* catalogue, and only if it does not hold of what was there to be read.       *)
THEOREM NoFalseResolution == Spec => NoFalseResolve
<1>1. TypeOK /\ [Next]_vars =>
        [Reporting =>
           /\ (current \ current') \cap Truth = {}
           /\ pass.kind = "tick" => \A r \in current \ current' : r.entry \in pass.fetched]_vars
  <2> SUFFICES ASSUME TypeOK, Next, Reporting, NEW r \in current, r \notin current'
               PROVE  r \notin Truth /\ (pass.kind = "tick" => r.entry \in pass.fetched)
    OBVIOUS
  <2>1. /\ current' = FoundRows(pass.library, mapping, pass.failing, pass.site, pass.fetched)
                      \cup Kept(pass, mapping)
        /\ pass.kind \in Kinds
    BY ReportOutcome
  <2>2. r \notin Kept(pass, mapping)
    BY <2>1
  <2>3. r \notin Truth
    BY <2>1, <2>2, TrueIsFoundOrPreserved, ConstantsAssumption DEF Truth, Kept
  <2>4. pass.kind = "tick" => r.entry \in pass.fetched
    BY <2>2 DEF Kept, Authority, EvaluatedIDs
  <2> QED
    BY <2>3, <2>4
<1> QED
  BY <1>1, TypeCorrect, PTL DEF Spec, NoFalseResolve

(* A row that does not hold survives a report only where the pass lacked the   *)
(* evidence to resolve it.                                                     *)
THEOREM SurvivorsLackEvidence == Spec => RowsHaveEvidence
<1>1. TypeOK /\ [Next]_vars =>
        [Reporting => \A r \in current' \ Truth :
           /\ r \in current
           /\ \/ r.entry \in pass.failing
              \/ /\ r.entry \in pass.fetched
                 /\ ~FilesKnown(pass.library, mapping, <<r.entry, r.arr>>)
                 /\ ~Withheld(pass.library, <<r.entry, r.arr>>)
              \/ pass.kind = "tick" /\ r.entry \notin pass.fetched
              \/ pass.kind = "tick" /\ MatchedArrs(pass.library, mapping, {}, r.entry) = {}]_vars
  <2> SUFFICES ASSUME TypeOK, Next, Reporting, NEW r \in current' \ Truth
               PROVE  /\ r \in current
                      /\ \/ r.entry \in pass.failing
                         \/ /\ r.entry \in pass.fetched
                            /\ ~FilesKnown(pass.library, mapping, <<r.entry, r.arr>>)
                            /\ ~Withheld(pass.library, <<r.entry, r.arr>>)
                         \/ pass.kind = "tick" /\ r.entry \notin pass.fetched
                         \/ /\ pass.kind = "tick"
                            /\ MatchedArrs(pass.library, mapping, {}, r.entry) = {}
    OBVIOUS
  <2>1. /\ current' = FoundRows(pass.library, mapping, pass.failing, pass.site, pass.fetched)
                      \cup Kept(pass, mapping)
        /\ pass.kind \in Kinds
        /\ current \subseteq Rows
    BY ReportOutcome
  <2>2. r \in Kept(pass, mapping)
    BY <2>1, FoundIsTrue DEF Truth
  <2>3. r \in current /\ r.entry \in Entries
    BY <2>1, <2>2 DEF Kept, Rows
  <2>4. CASE <<r.entry, r.arr>> \in Preserved(pass.library, mapping, pass.failing, pass.fetched)
    BY <2>3, <2>4 DEF Preserved
  <2>5. CASE r.entry \notin Authority(pass, mapping)
    <3>1. pass.kind = "tick"
      BY <2>1, <2>3, <2>5 DEF Authority, Kinds
    <3>2. r.entry \notin EvaluatedIDs(pass.library, mapping, pass.failing, pass.fetched)
      BY <2>5, <3>1 DEF Authority
    <3>3. r.entry \notin pass.failing =>
            MatchedArrs(pass.library, mapping, pass.failing, r.entry)
              = MatchedArrs(pass.library, mapping, {}, r.entry)
      BY DEF MatchedArrs
    <3> QED
      BY <2>3, <3>1, <3>2, <3>3 DEF EvaluatedIDs
  <2> QED
    BY <2>2, <2>4, <2>5 DEF Kept
<1> QED
  BY <1>1, TypeCorrect, PTL DEF Spec, RowsHaveEvidence
=============================================================================
