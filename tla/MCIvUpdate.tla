---------------------------- MODULE MCIvUpdate ----------------------------
(* Instances of IvUpdate for TLC. *)
EXTENDS IvUpdate, TLC

CONSTANTS n1, n2

\* One node among neighbours that may send any beacon at any time.
OneNode == {n1}
TwoNodes == {n1, n2}
AnyBeacon == Beacon
NoBeacons == {}
AnyIv == 0..MaxIv
ZeroOnly == {0}
TwoCtxs == {1, 2}
OneCtx == {1}

\* nonce, wrapped and joined are history: no guard and no new state depends on them.
WithoutHistory ==
  <<[n \in Nodes |-> [node[n] EXCEPT !.wrapped = FALSE, !.joined = FALSE]], cache, net>>

\* The pair is followed until some node takes the second step to a new index.
UntilSecondStep == net.top < MaxIv

Perms == Permutations(TwoNodes)
=============================================================================
