\* Three calls of Write of any kind, two crashes or failed calls to the file
\* system, level 0 merged from one table on and full with two.  It stops when
\* all calls are made and the troubles used up.
SPECIFICATION FairSpec
CONSTANTS
  MaxWrites = 3
  MaxTroubles = 2
  MaxOutputs = 2
  L0Trigger = 1
  L0Stop = 2
INVARIANTS TypeOK TablesKept SequenceOnce
PROPERTIES IsStore WriteReturns
CHECK_DEADLOCK FALSE
