\* Three registered clients, two channels, no INVITE, one target to a KICK.
SPECIFICATION RegisteredSpec
CONSTANTS
  Users = {1, 2, 3}
  Nicks = {n1, n2, n3}
  Commands <- SafeCommands
  MaxMangle = 1
  Ptrs = {p1, p2}
  Names = {a, b}
  NoName = NoName
  Keys = {}
  NoKey = NoKey
  EmptyKey = EmptyKey
  Limits = {}
  Topics = {""}
  MaxInvites = 1
  MaxTargets = 1
SYMMETRY SafeSymmetry
PROPERTIES
  RoomsSpec
