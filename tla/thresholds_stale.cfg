\* A PUT leaves a stale copy.
SPECIFICATION Spec
CONSTANTS
  Fields = {max}
  Values = {v}
  Puts = {p1}
  Checks = {c1}
  Null = Null
  Default = Default
  None = None
PROPERTY
  PutInvalidatesCopy
