SPECIFICATION FairSpec
CONSTANTS
  Rows <- OneRow
  Trigger <- OneRow
  Chat <- OneRow
  Poison <- OneRow
  Window = 2
  Streaming = FALSE
  Routed = FALSE
  EarlyClose = FALSE
  MaxTries = 1
  MaxFaults = 0
  MaxWakeFailures = 0
  MaxRequeues = 0
PROPERTY TriggersSettle
