------------------------------ MODULE Verdicts ------------------------------
(* The pure algorithms of a pass, asked one question each: what an animap      *)
(* entry states, whether a series' files match a listing, and the finding a    *)
(* match yields. A question is answered once, by the code's own computation,   *)
(* and the invariants hold the answer against what the raw input says.         *)
EXTENDS Projection, Comparison

CONSTANTS
  MapEntries,  \* [tvdb, entry]: the entries project reads
  Alignments,  \* [series, entry, listing]: what Decide is asked
  Comparisons      \* [series, entry, listed, opts]: what compareOne is asked

ASSUME VerdictsAssumption ==
  /\ \A x \in MapEntries : x.entry \in Seq(Readings)
  /\ \A x \in Alignments : /\ ListedOnce(x.series) /\ Mapped(x.entry)
                           /\ \A g \in DOMAIN x.listing.revs : x.listing.revs[g] \in Revisions
  /\ \A x \in Comparisons : /\ ListedOnce(x.series) /\ FilesStated(x.series)
                           /\ Mapped(x.entry) /\ TorrentsStated(x.listed.torrents)

VARIABLES question, answer

verdictVars == <<question, answer>>
\* The answer is a sequence of at most one.
NoAnswer == <<>>
NoQuestion == [of |-> "nothing"]

VerdictsInit ==
  /\ question \in [of : {"project"}, about : MapEntries] \cup [of : {"decide"}, about : Alignments]
                  \cup [of : {"compare"}, about : Comparisons]
  /\ answer = NoAnswer

Answer(a) == answer' = <<a>> /\ UNCHANGED question

ProjectEntry ==
  /\ question.of = "project" /\ answer = NoAnswer
  /\ Answer(EntryFacts(question.about.tvdb, {}, FALSE, question.about.entry))

DecideItem ==
  /\ question.of = "decide" /\ answer = NoAnswer
  /\ Answer(Decide(ItemOf(question.about.series), question.about.entry, question.about.listing))

CompareMatch ==
  /\ question.of = "compare" /\ answer = NoAnswer
  /\ Answer(CompareOne(ItemOf(question.about.series), question.about.entry,
                       question.about.listed, question.about.opts))

VerdictsNext == ProjectEntry \/ DecideItem \/ CompareMatch
VerdictsSpec == VerdictsInit /\ [][VerdictsNext]_verdictVars

Settled(kind) == answer # NoAnswer /\ question.of = kind
------------------------------------------------------------------------------
(* The map is never read to state more than it does of any episode.            *)
EntryFactsSound == Settled("project") => ProjectionSound(question.about.entry, answer[1])

(* A standing is asserted only on what the files give.                         *)
DecisionSound ==
  Settled("decide") =>
    AlignmentSound(question.about.series, question.about.entry, question.about.listing, answer[1])

(* A finding recommends what can be used and is not held, and counts only what *)
(* the download would replace.                                                 *)
FindingsSound ==
  Settled("compare") =>
    FindingSound(question.about.series, question.about.entry, question.about.listed, question.about.opts, answer[1])
=============================================================================
