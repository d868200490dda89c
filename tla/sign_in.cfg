\* Two requests at a time, and three where their locks make chains, by handlers that share
\* state.
SPECIFICATION FairSpec
\* Clients run out of tokens and codes; RequestsEnd finds a request that hangs.
CHECK_DEADLOCK FALSE
CONSTANTS
  Accounts = {a1, a2}
  Founders = {a1}
  Tokens = {t1, t2, t3}
  Codes = {c1, c2}
  Requests = {r1, r2, r3}
  MaxAttempts = 2
  Scenarios = {{"ask", "verify"}, {"verify", "patch"}, {"login", "refresh", "logout"}, {"login", "refresh", "patch"}, {"register", "patch"}}
  Crowds = {{"register", "patch"}, {"login", "refresh", "patch"}}
  None = None
INVARIANTS
  TypeOK
  SessionKeepsOneToken
  LockedOutOnlyByLostAnswer
  AcceptedTwiceOnlyByRace
  TriesBounded
PROPERTIES
  BurnedOnlyWhenTried
  PhoneNeverTakenOver
  RequestsEnd
