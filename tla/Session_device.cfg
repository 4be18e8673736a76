SPECIFICATION FairSpec
CONSTANTS
  Device = {phone}
  EmailAccount = {ann}
  FacebookAccount = {fay}
  GoogleAccount = {}
  Nobody = Nobody
  Default = Default
  NoName = NoName
  MaxTasks = 2
  MaxPuts = 2
  Faults = {"kill", "failure", "drop"}
CHECK_DEADLOCK FALSE
INVARIANTS
  TypeOK
  ProfileIsOwn
  HomeKnowsUser
PROPERTIES
  NameKept
  RegistrationCompletes

