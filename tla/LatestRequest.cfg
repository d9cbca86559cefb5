\* Four calls: a stale, an aborted, a cancelled and a live one can overlap.
SPECIFICATION FairSpec
CONSTANT MaxCalls = 4
INVARIANTS
  RequestTypeOK
  OneLiveFetch
PROPERTIES
  ImplementsLastCallWins
  FetchEnds
