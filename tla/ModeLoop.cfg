\* A command of up to three letters and two parameters; two clients.  The model
\* ends with the command.
SPECIFICATION Spec
CHECK_DEADLOCK FALSE
CONSTANTS
  n1 = n1
  n2 = n2
  one = one
  big = big
  Users = {1, 2}
  Nicks = {n1, n2}
  Called <- NicknameOf
  Words = {n1, n2, one, big}
  Value <- NumberOf
  MaxInt = 1
  Here = Here
  Name = Name
  NoName = NoName
  NoKey = NoKey
  EmptyKey = EmptyKey
  Found <- TwoByTwo
  MaxLetters = 3
  MaxParams = 2
INVARIANTS
  ModeTypeOK
  AnnouncementIsTrue
PROPERTIES
  ModeIsOneStep
