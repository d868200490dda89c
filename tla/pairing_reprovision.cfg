\* A provision that loads the row before a confirm pairs it.
SPECIFICATION Spec
CONSTANTS
  Users = {u1}
  Requests = {r1, r2}
  Secrets = {s1}
  Names = {a}
  Nonces = {n1}
  Ops = {"challenge", "confirm", "provision"}
  Unprovisioned = Unprovisioned
  None = None
PROPERTY
  ProvisionForcesRepairing
