SPECIFICATION FairSpec
CONSTANTS
  Tasks = {t1, t2}
  Manager = Manager
  CommandQueueLength = 2
  MaxSubscriptions = 2
  MaxFaults = 2
INVARIANTS TypeOK OneCallbackPerWait CallbackStaysRegistered
PROPERTY LoopsUnlessUnechoed
CHECK_DEADLOCK FALSE
