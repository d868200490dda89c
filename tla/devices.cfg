\* Every handler together: two requests at a time by two accounts.
SPECIFICATION Spec
CONSTANTS
  Users = {u1, u2}
  Requests = {r1, r2}
  Secrets = {s1}
  Names = {a, b}
  Nonces = {n1, n2}
  Ops = {"challenge", "confirm", "provision", "share", "remove"}
  Unprovisioned = Unprovisioned
  None = None
SYMMETRY Symmetry
INVARIANTS
  TypeOK
  OneWriterPerKey
  AccessLostOnlyInFlight
  NonceReusedOnlyByRace
PROPERTIES
  MembersChangeOnlyBySharing
  LastMemberLostOnlyByRace
  MispairedOnlyByRace
  PairedNameChangesOnlyByRace
