\* Three readings, four firmware versions, two coroutines at a time.
SPECIFICATION Spec
CONSTANTS
  Times = {1, 2, 3}
  Versions = {"1.4.2", "v2.0.0", "10.0.0", "2.0"}
  Semver = {"1.4.2", "v2.0.0", "10.0.0"}
  Superseded = {"1.4.2"}
  Slots = {s1, s2}
  None = None
SYMMETRY Symmetry
INVARIANTS
  EnqueuedOnce
  OfferedIffSuperseded
PROPERTY
  FirmwareOutdatedOnlyByDisorder
