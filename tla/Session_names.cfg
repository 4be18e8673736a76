SPECIFICATION Spec
CONSTANTS
  Device = {phone}
  EmailAccount = {ann, ben}
  FacebookAccount = {}
  GoogleAccount = {}
  Nobody = Nobody
  Default = Default
  NoName = NoName
  MaxTasks = 1
  MaxPuts = 2
  Faults = {}
CHECK_DEADLOCK FALSE
INVARIANT NamesOwn
