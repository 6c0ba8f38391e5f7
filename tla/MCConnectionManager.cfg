SPECIFICATION FairSpec
CONSTANTS
  EventQueueLength = 2
  CommandQueueLength = 2
  MaxFaults = 3
INVARIANTS TypeOK NoLostSignal ReconnectHoldsDisconnected
PROPERTIES DeadSocketReplaced EventuallyInService
