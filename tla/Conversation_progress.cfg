SPECIFICATION FairChatSpec
CONSTANTS
  User = {alice, bob}
  Nobody = nobody
  MaxSends = 2
  MaxAppears = 2
  MaxDrops = 1
  MaxKills = 0
  MaxRefusals = 0
CHECK_DEADLOCK FALSE
PROPERTIES
  EventuallyShown
  EventuallyDrawn
  MessageArrives
