\* Two clients, the lines of one may arrive in parts, all kinds of commands.
SPECIFICATION Spec
CHECK_DEADLOCK FALSE
CONSTANTS
  a = a
  b = b
  Peers = {a, b}
  Nobody = Nobody
  Fds = {4, 5}
  Splitters = {a}
  Kinds = {"QUIT", "POWEROFF", "OTHER"}
  Limit = 4
  MaxPending <- TwoLinesAndOne
  InterruptLeaves = {"kept", "cleared"}
INVARIANTS
  PollTypeOK
  TablesAgree
  NothingLostOrRepeated
PROPERTIES
  OnlyPartsGoAstray
