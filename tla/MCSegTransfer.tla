--------------------------- MODULE MCSegTransfer ---------------------------
(* Instances of SegTransfer for TLC. *)
EXTENDS SegTransfer, TLC

CONSTANTS a1, a2, s1, s2, s3

OneSource == {a1}
TwoSources == {a1, a2}

OneSdu == {s1}
TwoSdus == {s1, s2}
ThreeSdus == {s1, s2, s3}

\* Two SDUs of one device, one of the other.
SharedSource == [s \in Sdus |-> IF s = s3 THEN a2 ELSE a1]

\* Sequence numbers start here, ahead of a multiple of SeqZeros.
FromSeven == [a \in Sources |-> 7]

\* Up to five transmissions are followed: one SDU sent twice, and part of another.
FivePdus == Cardinality(air) <= 5

Perms == Permutations(TwoSdus)
=============================================================================
