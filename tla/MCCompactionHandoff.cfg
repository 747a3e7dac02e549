\* Two requests for one compaction, every state of the source, a page that
\* may be gone, and a third transaction of another conversation in the store.
CONSTANTS
  Transactions = {r1, r2, x3}
  Requests = {r1, r2}
  SourceStates = {"absent", "running", "over"}
  PageMayBeGone = TRUE
SPECIFICATION StopSpec
CHECK_DEADLOCK FALSE
INVARIANT TypeOK
INVARIANT SummariesAgree
INVARIANT HandoffIsOwned
PROPERTY WaitsEnd
