--------------------------- MODULE MCFeedJournal ----------------------------
EXTENDS FeedJournal, TLC

CONSTANTS l1, l2, l3, l4, e1, e2, k1, k2, k3, h1, nyaa

\* Two entries.  l1 and l3 are one Nyaa torrent, its hash shown in one entry
\* only; l2 is the same bytes on AnimeBytes; l4 a re-upload of them to Nyaa.
MCListings == {l1, l2, l3, l4}
MCEntryOf  == l1 :> e1 @@ l2 :> e2 @@ l3 :> e2 @@ l4 :> e1
MCKeyOf    == l1 :> k1 @@ l2 :> k2 @@ l3 :> k1 @@ l4 :> k3
MCHashOf   == [l \in MCListings |-> h1]
MCScopeOf  == k1 :> nyaa @@ k2 :> AB @@ k3 :> nyaa

MCMayBe ==
    l1 :> {"unlisted", "plain", "bare"} @@ l2 :> {"unlisted", "plain", "tagged"}
    @@ l3 :> {"redacted"} @@ l4 :> {"unlisted", "plain"}

Config(e, p, t) == [enabled |-> e, passkey |-> p, policy |-> t]
MCConfigs == {Config({nyaa, AB}, TRUE, TRUE), Config({nyaa, AB}, FALSE, TRUE),
              Config({nyaa}, FALSE, TRUE)}
=============================================================================
