SPECIFICATION Spec
CONSTANTS
  Device = {phone}
  EmailAccount = {ann}
  FacebookAccount = {}
  GoogleAccount = {gil}
  Nobody = Nobody
  Default = Default
  NoName = NoName
  MaxTasks = 1
  MaxPuts = 1
  Faults = {"kill"}
CHECK_DEADLOCK FALSE
INVARIANT RecordsWhole
