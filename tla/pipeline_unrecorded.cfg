\* A breach whose alert events cannot be written.
SPECIFICATION Spec
CONSTANTS
  Times = {1}
  Versions = {v1}
  Slots = {s1}
  Users = {u1}
  Workers = {w1}
  MaxRetries = 0
  MaxRepeats = 0
  None = None
INVARIANT
  BreachesArePersisted
