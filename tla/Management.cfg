SPECIFICATION Spec
CONSTANTS
  Slots = {k1, k2}
  Secrets = {x1, x2, x3, x4, x5}
  UserIDs <- MCUserIDs
  OldUsers <- MCOldUsers
  OldEvents = 2
  MaxEvents = 3
  PageSizes = {0, 2, 3, 6}
  DefaultPage = 1
  MaxPage = 2
  Wrap = 4
  None = None
INVARIANTS
  ApiInv
  AnswersAreTrue
  KnownSecretWorks
  WalkComplete
PROPERTIES
  OperatorRecovers
