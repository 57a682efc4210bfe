\* Two clients that send whole lines; a poll that is interrupted clears revents.
SPECIFICATION FairSpec
CHECK_DEADLOCK FALSE
CONSTANTS
  a = a
  b = b
  Peers = {a, b}
  Nobody = Nobody
  Fds = {4, 5}
  Splitters = {}
  Kinds = {"QUIT", "OTHER"}
  Limit = 5
  MaxPending <- TwoLinesAndOne
  InterruptLeaves = {"cleared"}
INVARIANTS
  RecvNeverBlocks
PROPERTIES
  ServesLines
