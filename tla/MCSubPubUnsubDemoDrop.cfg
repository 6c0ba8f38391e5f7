SPECIFICATION FairSpec
CONSTANTS
  Tasks = {t1}
  Manager = Manager
  CommandQueueLength = 2
  MaxSubscriptions = 2
  MaxFaults = 1
PROPERTY LoopsForever
CHECK_DEADLOCK FALSE
