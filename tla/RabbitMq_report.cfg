SPECIFICATION Spec
CONSTANTS
  Subs = {1}
  MaxTries = 2
  Budget = 3
  SubscribeCost = 2
PROPERTY EndIsReported
CHECK_DEADLOCK FALSE
