\* Two calls at a time, every fault.
\* The account may be left alone once the bounded clock has run.
CHECK_DEADLOCK FALSE
SPECIFICATION Spec
CONSTANTS
  Call = {c1, c2}
  Lifetime = 1
  Lead = 0
  MaxTime = 1
  MaxGeneration = 3
SYMMETRY Symmetry
INVARIANTS
  TypeOK
  RefreshTokenKept
  DisconnectIsFinal
