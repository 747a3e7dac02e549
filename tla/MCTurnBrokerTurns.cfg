\* Two turns, one registered over the socket with remote observers, and two
\* MCP sessions with exact, stale and unknown handles: draining, revocation
\* and close against registrations, claims, calls and batches.
CONSTANTS
  Turns = {t1, t2}
  External = {t2}
  Calls = {c1}
  Activities = {}
  Sessions = {s1, s2}
  Observers = {o1}
  Expiring = {t2}
  MaxLosses = 1
  NoTurn = NoTurn
  NoSession = NoSession
  UnknownHandle = UnknownHandle
SPECIFICATION Spec
SYMMETRY Symmetry
PROPERTY SessionsAreApart
