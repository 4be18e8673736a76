SPECIFICATION FairSpec
CONSTANTS
  User = {alice, bob}
  MaxTaps = 1
  MaxDrops = 1
  MaxKills = 1
  MaxRejects = 0
CHECK_DEADLOCK FALSE
PROPERTIES
  SentAlertIsTrue
