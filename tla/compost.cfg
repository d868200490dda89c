\* Two requests at a time: batches and logs, and a client that lists the logs.
SPECIFICATION Spec
\* Ids run out and the client stops at the last page: see SomeoneContinues.
CHECK_DEADLOCK FALSE
CONSTANTS
  Cycles = {c1, c2}
  Logs = {l1, l2, l3}
  Times = {1, 2, 3}
  Limit = 1
  Requests = {r1, r2}
  Scenarios = {{"start", "patch", "log"}, {"log", "list"}}
  None = None
SYMMETRY Symmetry
INVARIANTS
  TypeOK
  CompletedHasEnd
  MissedOnlyByRace
  SomeoneContinues
PROPERTIES
  OneActive
  AttributedElsewhereOnlyByRace
