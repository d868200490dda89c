\* Two PUTs of two thresholds and one alert check at a time.
SPECIFICATION FairSpec
CONSTANTS
  Fields = {min, max}
  Values = {v}
  Puts = {p1, p2}
  Checks = {c1}
  Null = Null
  Default = Default
  None = None
INVARIANT
  TypeOK
PROPERTIES
  RegisterSpec
  MixedOnlyByRace
  StaleOnlyByRace
  EventuallyFresh
