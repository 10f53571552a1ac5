CONSTANTS
  Attempts = {a1, a2, a3}
  IDs = {1, 2, 3}
  CandidateLists <- LongerLists
  MaxTickets = 4
SPECIFICATION SelectorSpec
SYMMETRY Symmetry
INVARIANTS SelectorTypeOK DistinctStarts TicketsAccounted QuiescentAtCursor OfferedInOrder CommitStartsBehindNode
PROPERTY SuccessesKept
CHECK_DEADLOCK FALSE
