\* Seven hours in half-hour steps, days of three hours, two readings and a demo device.
SPECIFICATION Spec
\* The model's time ends.
CHECK_DEADLOCK FALSE
CONSTANTS
  Devices = {d1}
  Demo = demo
  TicksPerHour = 2
  HoursPerDay = 3
  Retention = 1
  RawLimit = 2
  RawWindow = 2
  MaxTime = 13
  MaxReadings = 2
INVARIANTS
  TypeOK
  HiddenOnlyWhenLateOrCut
PROPERTIES
  AggregateOutlivesReadings
  SnapshotNeverGoesBack
