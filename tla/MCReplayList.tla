---------------------------- MODULE MCReplayList ----------------------------
(* Instances of ReplayList for TLC. *)
EXTENDS ReplayList, TLC

CONSTANTS s1, s2, s3

ThreeSources == {s1, s2, s3}

Perms == Permutations(ThreeSources)
=============================================================================
