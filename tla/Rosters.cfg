\* Three registered clients, one nickname to spare, one channel, every way in
\* and out of it.
SPECIFICATION SettledSpec
CONSTANTS
  Users = {1, 2, 3}
  Nicks = {n1, n2, n3, n4}
  Commands <- SettledCommands
  MaxMangle = 1
  Ptrs = {p}
  Names = {a}
  NoName = NoName
  Keys = {}
  NoKey = NoKey
  EmptyKey = EmptyKey
  Limits = {}
  Topics = {""}
  MaxInvites = 1
  MaxTargets = 2
SYMMETRY NickSymmetry
INVARIANTS
  RostersTypeOK
  RostersAreTrue
  OperatorsAreKnown
  LeaversAreTold
