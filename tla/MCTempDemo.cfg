SPECIFICATION FairSpec
CONSTANTS
  OtherClients = 1
  CommandQueueLength = 7
  NotificationValues = 2
  MaxCommands = 1
  OperatorPayloads = {"word"}
  MaxFaults = 2
  MaxExpiries = 1
INVARIANTS TypeOK AckMatchesPublish PublishAccepted
PROPERTIES KeepsPublishing LedFollowsOperator
