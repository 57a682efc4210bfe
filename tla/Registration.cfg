\* Three clients, two nicknames, every command, the mistaken ones included.
SPECIFICATION RegSpec
CONSTANTS
  Users = {1, 2, 3}
  Nicks = {n1, n2}
  Commands <- AllCommands
  MaxMangle = 2
INVARIANTS
  TypeOK
  NickExclusive
  IdentityMatchesStatus
PROPERTIES
  LoginSpec
