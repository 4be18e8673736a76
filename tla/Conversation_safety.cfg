SPECIFICATION ChatSpec
CONSTANTS
  User = {alice, bob}
  Nobody = nobody
  MaxSends = 2
  MaxAppears = 2
  MaxDrops = 1
  MaxKills = 1
  MaxRefusals = 1
SYMMETRY Symmetry
CHECK_DEADLOCK FALSE
INVARIANTS
  ChatTypeOK
  ShownOnce
  ReadingFinds
  OrderOfSender
  EntriesLead
  SenderHasIt
PROPERTY IsCourier
