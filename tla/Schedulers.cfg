SPECIFICATION Spec
CONSTANTS
  Tenants <- MCTenants
  Tick = {c1, c2}
  Days = 2
  MaxFaults = 1
INVARIANTS
  KeyMeansDone
  OnceWhenCalm
PROPERTIES
  EveryoneServed
\* Nothing is left to do once the last day is over.
CHECK_DEADLOCK FALSE
