---------------------------- MODULE MCFriendship ----------------------------
(***************************************************************************)
(* Friendship for TLC.                                                     *)
(***************************************************************************)
EXTENDS Friendship

\* What the node received before has no bearing on the steps that follow, nor
\* has the number of a transaction that is over.
View ==
  <<f, [l EXCEPT !.xact = IF l.sent \in {"add", "rem"} THEN @ ELSE 0],
    answer, sent, calls, slips, twice>>
=============================================================================
