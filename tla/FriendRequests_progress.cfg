SPECIFICATION FairSpec
CONSTANTS
  User = {alice, bob}
  MaxTaps = 2
  MaxDrops = 1
  MaxKills = 0
  MaxRejects = 0
CHECK_DEADLOCK FALSE
PROPERTIES
  RequestArrives
  AcceptCompletes
  EventuallyQuiet
