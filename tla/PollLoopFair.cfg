\* Two clients, the lines of one may arrive in parts; fairness of the server.
SPECIFICATION FairSpec
CHECK_DEADLOCK FALSE
CONSTANTS
  a = a
  b = b
  Peers = {a, b}
  Nobody = Nobody
  Fds = {4, 5}
  Splitters = {a}
  Kinds = {"OTHER"}
  Limit = 5
  MaxPending <- TwoLinesAndOne
  InterruptLeaves = {"cleared"}
PROPERTIES
  WholeLinesAreExecuted
  StopEnds
