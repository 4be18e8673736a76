SPECIFICATION PartsSpec
CONSTANTS
  MaxKey = 3
  MaxWrites = 3
  MaxSnapshots = 1
  LastLevel = 3
  MaxMemLevel = 2
  MaxPicks = 3
  MaxFaults = 2
  Person = {"ann", "bob"}
  Record = {1, 2, 3}
  Whose <- Friend
  Text = {"", "a"}
  Matching <- Found
  MaxQueries = 3
  MaxHeight = 2
  MaxReads = 2
  BlockSize = 5
  HeaderSize = 2
  MaxRecords = 3
  MaxSize = 7
  IterKeys = 2
  IterEntries = 5
  IterWrites = 2
  Child = {1, 2}
  Memtable = 1
  Table = {1, 2, 3}
  Reader = {"a", "b"}
  Capacity = 2
  UserKey <- Keys
  TopByte = 2
  MaxSequence = 3
  TableEntries = 3
  Interval = 2
  BlockBytes = {1, 3}
  FilterBase = 2
INVARIANTS
  Levels
  Snapshots
  NoOlderPicture
  ProfileAlive
  ListSettled
  SearchRight
  LogRead
  Iteration
  TablesOpen
  TableRead
CHECK_DEADLOCK FALSE
