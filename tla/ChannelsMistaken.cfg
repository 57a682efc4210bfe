\* Three registered clients whose nicknames get overwritten by error replies.
SPECIFICATION RegisteredSpec
CONSTANTS
  Users = {1, 2, 3}
  Nicks = {n1, n2, n3}
  Commands <- MistakenCommands
  MaxMangle = 2
  Ptrs = {p1}
  Names = {a}
  NoName = NoName
  Keys = {}
  NoKey = NoKey
  EmptyKey = EmptyKey
  Limits = {}
  Topics = {""}
  MaxInvites = 1
  MaxTargets = 1
SYMMETRY CrowdSymmetry
INVARIANTS
  LiveChannels
  JoinedIsListed
  InvitationsAreTracked
PROPERTIES
  DepartureLeavesOperator
