SPECIFICATION StartupFairSpec
CONSTANTS
  EventQueueLength = 2
  CommandQueueLength = 1
  MaxFaults = 1
INVARIANTS StartupTypeOK RegisteredBeforeEvents WifiBitAccurate
PROPERTIES StartsManager BootsIntoService
