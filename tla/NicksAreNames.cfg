SPECIFICATION RegSpec
CONSTANTS
  Users = {1, 2}
  Nicks = {n1, n2}
  Commands <- AllCommands
  MaxMangle = 2
INVARIANT
  NicksAreNames
