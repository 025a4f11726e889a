---------------------------- MODULE MCSeqStore ----------------------------
(* Instances of SeqStore for TLC. *)
EXTENDS SeqStore, Bitwise

BitAnd(a, b) == a & b
=============================================================================
