\* Two removals at a time: the last member goes.
SPECIFICATION Spec
CONSTANTS
  Users = {u1, u2}
  Requests = {r1, r2}
  Secrets = {s1}
  Names = {a}
  Nonces = {n1}
  Ops = {"challenge", "share", "remove"}
  Unprovisioned = Unprovisioned
  None = None
INVARIANT
  NeverOrphaned
