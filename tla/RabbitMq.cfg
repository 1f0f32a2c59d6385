SPECIFICATION Spec
CONSTANTS
  Subs = {1, 2}
  MaxTries = 2
  Budget = 5
  SubscribeCost = 2
INVARIANT NoZombieConsumer
PROPERTY Resumes
CHECK_DEADLOCK FALSE
