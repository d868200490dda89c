\* Every request ends: two requests at a time by two accounts, of the handlers whose
\* statements wait for each other, and of removals.
SPECIFICATION FairSpec
CONSTANTS
  Users = {u1, u2}
  Requests = {r1, r2}
  Secrets = {s1}
  Names = {a}
  Nonces = {n1, n2}
  Ops = {"challenge", "share", "remove"}
  Unprovisioned = Unprovisioned
  None = None
PROPERTY
  RequestsEnd
