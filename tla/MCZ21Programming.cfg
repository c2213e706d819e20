SPECIFICATION Spec
CONSTANTS
  cv1 = cv1
  cv2 = cv2
  x = x
  y = y
  NoValue = NoValue
  Values <- WriteValues
  Tasks <- WriteTasks
  Variable <- WriteAccess
  Written <- WriteWritten
  Direct = FALSE
  RetryLimit = 1
  MaxLostRequests = 1
  MaxLostAnswers = 1
  MaxEarlyResends = 1
  MaxErrors = 1
INVARIANTS
  ValuesAreFresh
  ReportedOnce
CHECK_DEADLOCK FALSE
