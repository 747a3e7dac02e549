\* Room for two turns; the scenarios of the module.  The run ends when all
\* requests and controls have come.
CONSTANTS
  a = a  b = b  c = c
  a1 = a1  a2 = a2  b1 = b1  c1 = c1
  T = T  C = C
  NoConversation = NoConversation
  NoKey = NoKey
  Requests = {a1, a2, b1, c1}
  Scenarios <- MCScenarios
  Keys = {a, b, c}
  Threads = {T}
  Conversations = {C}
  KeyOf <- MCKeyOf
  SourceOf <- MCSourceOf
  ThreadOf <- MCThreadOf
  TurnOf <- MCTurnOf
  ConversationOf <- MCConversationOf
  MaxActive = 2
  MaxEntries = 2
  MaxTombstones = 2
SPECIFICATION FairSpec
CHECK_DEADLOCK FALSE
INVARIANT TypeOK
PROPERTY RegistryIsTrue
PROPERTY NobodyIsStuck
