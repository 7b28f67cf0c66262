---------------------------- MODULE MCStateStore ----------------------------
(* The daemon and one `poll` process over one state file.                  *)
EXTENDS StateStore, TLC

CONSTANTS daemon, poll

MCProcs == {daemon, poll}
MCSymmetry == Permutations(MCProcs)
=============================================================================
