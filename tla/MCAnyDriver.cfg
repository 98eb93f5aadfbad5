SPECIFICATION Spec
CONSTANTS
  h1 = h1
  h2 = h2
  Handles = {h1, h2}
  Uses <- OneDirectionEach
  Tasks = {t1, t2}
  None = None
  Gone = Gone
  Tokens = {k1, k2}
  PollTokens = {p1, p2}
  MaxPolls = 2
INVARIANTS
  TypeOK
  ArmedHasRequest
PROPERTY
  KeepsPromise
