----------------------------- MODULE ServedFeed -----------------------------
(* What the feed server promises its clients, whoever produces snapshots   *)
(* and in whatever order they arrive: one process serves ever newer        *)
(* writes of the snapshot file, never an older one and never one that was  *)
(* not written.  Only a restart begins again from nothing.                 *)
EXTENDS Naturals

VARIABLES written,  \* how many snapshots have been written
          serving   \* the one being served; 0 when none is

svars == <<written, serving>>

FeedInit == written \in Nat /\ serving = 0

Write == written' = written + 1 /\ UNCHANGED serving

Advance ==
    /\ serving' \in (serving + 1)..written
    /\ UNCHANGED written

Forget == serving' = 0 /\ UNCHANGED written

FeedNext == Write \/ Advance \/ Forget

FeedSpec == FeedInit /\ [][FeedNext]_svars
=============================================================================
