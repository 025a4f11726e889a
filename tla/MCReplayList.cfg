\* Three sources compete for a list of three slots.
CONSTANTS
  s1 = s1
  s2 = s2
  s3 = s3
  Unassigned = Unassigned
  Sources <- ThreeSources
  Crpl = 3
  MaxSeq = 1
SPECIFICATION Spec
SYMMETRY Perms
INVARIANTS KnownReplaysRefused NewerAccepted
