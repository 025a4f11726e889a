---------------------------- MODULE MCKeyRefresh ----------------------------
(***************************************************************************)
(* KeyRefresh for TLC.                                                     *)
(***************************************************************************)
EXTENDS KeyRefresh

CONSTANTS c, n1, n2

Three == {c, n1, n2}
Two == {c, n1}
=============================================================================
