------------------------------ MODULE PassParts ------------------------------
(* The parts a pass calls one by one, before Scout settles how it ends: what   *)
(* it reads (the map, the libraries, the SeaDex collection, AniList's answers),*)
(* the titles the feed harvests, and the verdicts. The parts share no state    *)
(* but through the pass, so a behaviour here is one of them at work while the  *)
(* others rest in an initial state of theirs.                                  *)
EXTENDS MappingLoader, LibraryWalk, CatalogueFetch, Lookups, TitleHarvest, Verdicts

VARIABLE part  \* the one at work

MapRests == mapCache = (CHOOSE c \in Persisted : TRUE) /\ mapLatest = (CHOOSE t \in Tags : TRUE)
CatalogueRests == fetchMode = "full" /\ upstream = {}
LookupsRest == aniList = (CHOOSE a \in AniLists : TRUE) /\ memo = (CHOOSE m \in PersistedMemos : TRUE)
HarvestRests == /\ journal = (CHOOSE j \in Journals : TRUE)
                /\ rotationCursor = (CHOOSE c \in Cursors : TRUE)
                /\ rotationWatch = (CHOOSE w \in Watches : TRUE)

PartsInit ==
  /\ part \in {"map", "library", "catalogue", "lookups", "harvest", "verdict"}
  /\ part = "map" \/ MapRests
  /\ part = "catalogue" \/ CatalogueRests
  /\ part = "lookups" \/ LookupsRest
  /\ part = "harvest" \/ HarvestRests
  /\ LoaderInit /\ WalkInit /\ CatalogueInit /\ LookupsInit /\ HarvestInit
  /\ IF part = "verdict" THEN VerdictsInit ELSE question = NoQuestion /\ answer = NoAnswer

OthersRest == UNCHANGED <<part, walkVars, catalogueVars, lookupVars, harvestVars, verdictVars>>
LoadsMap == part = "map" /\ LoaderNext /\ OthersRest
WalksLibrary ==
  /\ part = "library" /\ WalkNext
  /\ UNCHANGED <<part, loaderVars, catalogueVars, lookupVars, harvestVars, verdictVars>>
FetchesCatalogue ==
  /\ part = "catalogue" /\ CatalogueNext
  /\ UNCHANGED <<part, loaderVars, walkVars, lookupVars, harvestVars, verdictVars>>
LooksUp ==
  /\ part = "lookups" /\ LookupsNext
  /\ UNCHANGED <<part, loaderVars, walkVars, catalogueVars, harvestVars, verdictVars>>
HarvestsTitles ==
  /\ part = "harvest" /\ HarvestNext
  /\ UNCHANGED <<part, loaderVars, walkVars, catalogueVars, lookupVars, verdictVars>>
Judges ==
  /\ part = "verdict" /\ VerdictsNext
  /\ UNCHANGED <<part, loaderVars, walkVars, catalogueVars, lookupVars, harvestVars>>

PartsNext == LoadsMap \/ WalksLibrary \/ FetchesCatalogue \/ LooksUp \/ HarvestsTitles \/ Judges
\* The pass keeps loading and time passes: what upstream offers once it is calm is loaded.
partsVars == <<part, loaderVars, walkVars, catalogueVars, lookupVars, harvestVars, verdictVars>>
PartsSpec == /\ PartsInit /\ [][PartsNext]_partsVars
             /\ WF_partsVars(part = "map" /\ mapCalm /\ Load /\ OthersRest)
             /\ WF_partsVars(part = "map" /\ mapCalm /\ Age /\ OthersRest)
------------------------------------------------------------------------------
(* The invariants of the parts, each of the behaviours its component works in; *)
(* the three of Verdicts hold of the answers it gives.                         *)

(* LoaderInv: a release set aside is one still refused, siblings count right.  *)
MapSound == part = "map" => LoaderInv
(* WalkWhole: a published snapshot leaves out no series.                       *)
WalkSound == part = "library" => WalkWhole
(* CatalogueWhole: an accepted walk of SeaDex lost no record that stood.       *)
CatalogueSound == part = "catalogue" => CatalogueWhole
(* LookupsWhole: no silent miss, no title lost, a bounded run of failures.     *)
LookupsSound == part = "lookups" => LookupsWhole
(* HarvestWhole: no show is overtaken, no title comes from a contradiction.    *)
HarvestSound == part = "harvest" => HarvestWhole
=============================================================================
