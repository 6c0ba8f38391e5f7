SPECIFICATION Spec
CONSTANTS
  EventQueueLength = 2
  CommandQueueLength = 1
  MaxFaults = 2
INVARIANT CommandLoopStoppedAtResubscribe
