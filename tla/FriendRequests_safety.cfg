SPECIFICATION Spec
CONSTANTS
  User = {alice, bob}
  MaxTaps = 2
  MaxDrops = 1
  MaxKills = 1
  MaxRejects = 1
SYMMETRY Symmetry
CHECK_DEADLOCK FALSE
INVARIANTS
  TypeOK
  DanglingOnlyBetweenFriends
  RecipientEntryAfterSenders
  HalfAcceptedCanBeRetried
  ListedFriendsExist
  AddedAlertIsTrue
PROPERTY RemovedOnlyBetweenFriends
