\* A log of three words, the number stored with every third message.
CONSTANTS
  LogSize = 3
  Interval = 3
  MaxSeq = 63
  WordAnd <- BitAnd
SPECIFICATION Spec
INVARIANTS KnownAhead IdentityKept
CHECK_DEADLOCK FALSE
