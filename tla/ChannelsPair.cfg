\* Two clients from their connection on, one channel name, two addresses.
SPECIFICATION Spec
CONSTANTS
  Users = {1, 2}
  Nicks = {n1, n2}
  Commands <- PoliteCommands
  MaxMangle = 1
  Ptrs = {p1, p2}
  Names = {a}
  NoName = NoName
  Keys = {}
  NoKey = NoKey
  EmptyKey = EmptyKey
  Limits = {}
  Topics = {"", "t"}
  MaxInvites = 2
  MaxTargets = 2
SYMMETRY ChannelSymmetry
INVARIANTS
  ChannelsTypeOK
  MembershipAgrees
  UsersAreReleased
PROPERTIES
  OnlyOperatorsGovern
  StaleEntriesComeFromJoin
  FreedOnlyThroughStaleEntries
