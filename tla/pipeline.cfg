\* One reading without a version, two workers, two members, one retry, one repetition.
SPECIFICATION FairSpec
CONSTANTS
  Times = {1}
  Versions = {}
  Slots = {s1, s2}
  Users = {u1, u2}
  Workers = {w1, w2}
  MaxRetries = 1
  MaxRepeats = 1
  None = None
INVARIANTS
  TypeOK
  RepeatedOnlyByRedelivery
  NothingLost
PROPERTIES
  PromiseSpec
  AlarmsEnd
