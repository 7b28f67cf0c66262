--------------------------- MODULE AtMostOnceFeed ---------------------------
(***************************************************************************)
(* What the RSS journal promises its subscribers: a release is announced   *)
(* at most once.  A release that was announced, or forfeited because it    *)
(* was already known, is spent and cannot be announced again, until the    *)
(* feed loses its memory and starts over with nothing announced.           *)
(***************************************************************************)
EXTENDS FiniteSets

CONSTANT Releases

VARIABLES onAir,    \* the releases the feed lists
          spent     \* the releases it will not announce any more

Init == /\ onAir = {}
        /\ spent = {}

\* New releases go on the air, some leave it, and more may be forfeited.
Announce ==
    \E new \in SUBSET (Releases \ spent) :
        /\ onAir' \in SUBSET (onAir \cup new)
        /\ spent' \in SUBSET Releases
        /\ spent \cup new \subseteq spent'

StartOver ==
    /\ onAir' = {}
    /\ spent' \in SUBSET Releases

Next == Announce \/ StartOver

Spec == Init /\ [][Next]_<<onAir, spent>>
=============================================================================
