SPECIFICATION FairSpec
CONSTANTS
  Apps = {a1}
  Patient = FALSE
  MaxActs = 2
  MaxConnects = 1
PROPERTY
  Settles
CHECK_DEADLOCK FALSE
