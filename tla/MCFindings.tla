------------------------------ MODULE MCFindings ------------------------------
(* A film with a copy in both arrs, whose series may be placed on specials or  *)
(* on nothing, and a series the mapping may know or leave to its title.        *)
EXTENDS Findings, TLC

CONSTANTS film, show, old, new

MCEntries == {film, show}
MCTitleArr == [e \in MCEntries |-> "sonarr"]
Is(h, r) == [held |-> h, read |-> r]
Absent == Is("absent", "read")
WalksOf(F, G, H) ==
  {<<film, "radarr">> :> f @@ <<film, "sonarr">> :> g
   @@ <<show, "radarr">> :> Absent @@ <<show, "sonarr">> :> h : f \in F, g \in G, h \in H}
MCWalks ==
  WalksOf({Is("nofile", "read"), Is(old, "read"), Is(old, "failed")},
        {Is("nofile", "read"), Is("withheld", "failed"), Is(old, "read"), Is(old, "specials")},
        {Absent, Is(old, "read")})
NoEntries == film :> "unlisted" @@ show :> "unlisted"
MCSites ==
  {NoEntries} \cup {film :> a @@ show :> b : <<a, b>> \in {<<old, "unlisted">>, <<new, new>>}}
Place(r, p) == [routes |-> r, placed |-> p]
MCMaps ==
  {film :> a @@ show :> b :
     <<a, b>> \in {<<Place(Arrs, "specials"), Place({}, "season")>>,
                   <<Place(Arrs, "nowhere"), Place({"sonarr"}, "season")>>,
                   <<Place({"radarr"}, "nowhere"), Place({"sonarr"}, "season")>>}}
=============================================================================
