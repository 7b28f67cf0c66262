--------------------------- MODULE MCSnapshotCache ---------------------------
(* The snapshot cache with a few writes of the file and one request.       *)
EXTENDS SnapshotCache

CONSTANT r1

MCRequests == {r1}
=============================================================================
