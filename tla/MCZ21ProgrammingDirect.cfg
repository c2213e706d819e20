SPECIFICATION FairSpec
CONSTANTS
  cv1 = cv1
  cv2 = cv2
  x = x
  y = y
  NoValue = NoValue
  Values <- ReadValues
  Tasks <- ReadTasks
  Variable <- ReadAccess
  Written <- ReadWritten
  Direct = TRUE
  RetryLimit = 1
  MaxLostRequests = 0
  MaxLostAnswers = 1
  MaxEarlyResends = 0
  MaxErrors = 1
PROPERTIES
  CallsEnd
CHECK_DEADLOCK FALSE
