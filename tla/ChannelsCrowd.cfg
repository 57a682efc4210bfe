\* Three registered clients, limits, kicks of two targets.
SPECIFICATION RegisteredSpec
CONSTANTS
  Users = {1, 2, 3}
  Nicks = {n1, n2, n3, n4}
  Commands <- CrowdCommands
  MaxMangle = 1
  Ptrs = {p1}
  Names = {a}
  NoName = NoName
  Keys = {k, EmptyKey}
  NoKey = NoKey
  EmptyKey = EmptyKey
  Limits = {2}
  Topics = {""}
  MaxInvites = 2
  MaxTargets = 2
SYMMETRY CrowdSymmetry
INVARIANTS
  CountedOnce
  OthersAreReached
PROPERTIES
  DepartureLeavesOperator
  OnlyOperatorsAppoint
  Admission
