\* One turn, two calls, an activity and two observers: batches, timers, lost
\* batches, aborts, compaction, the fence, expiry and revocation in every order.
CONSTANTS
  Turns = {t1}
  External = {}
  Calls = {c1, c2}
  Activities = {a1}
  Sessions = {}
  Observers = {o1, o2}
  Expiring = {t1, a1}
  MaxLosses = 1
  NoTurn = NoTurn
  NoSession = NoSession
  UnknownHandle = UnknownHandle
SPECIFICATION FairSpec
INVARIANT TypeOK
INVARIANT CallsAreKept
PROPERTY CompletionIsFenced
PROPERTY CompactionTakesOver
PROPERTY ImplementsService
PROPERTY EveryCallSettles
